---- MODULE Spec2Model ----
(***************************************************************************)
(* The AI chat screen of meshwar-mobile (src/app/_layout.tsx, AIChatScreen), *)
(* the document store it reads and writes, the favourites provider          *)
(* (src/contexts/FavoritesContext.tsx), the activity detail screen          *)
(* (src/app/activity/[id].tsx) and the route aggregation of the map         *)
(* (src/components/Map.native.tsx).                                         *)
(*                                                                          *)
(* A chat screen is a mounted AIChatScreen; several screens (devices) run   *)
(* against one store.  Every `await` of the source is a point where other   *)
(* screens and the store may take steps, so each action below is one        *)
(* synchronous segment of a handler: from the resumption of an await to the *)
(* next await or to the handler's return.                                   *)
(*                                                                          *)
(* Spec        one chat screen, every input, and the store's administrator  *)
(* SpecDevices the booking turns of two devices, all interleavings          *)
(* SpecSeq     the booking turns of two devices, one createBooking at a time*)
(* SpecScreen  the chat turns of one screen, React's renders as steps       *)
(* SpecContext one more turn on every transcript of up to MaxPairs turns    *)
(* SpecFavorites  the favourites provider and the device's AsyncStorage     *)
(* SpecFavoritesSeq  the same, one toggle at a time after the load          *)
(* SpecLive    Spec with every started turn taking its steps                *)
(* SpecPlaces  loadInitialData over the locations and their geocoding       *)
(* SpecDetail  the activity detail screen of one user for one activity      *)
(* SpecMap     processActivityRoutes over bounded activities and locations  *)
(*                                                                          *)
(* Strings are sequences of symbols.  The symbol Sentinel stands for the    *)
(* literal 'BOOK_ACTIVITY:' (which cannot overlap itself), a symbol that    *)
(* spells one of the fragments of callGeminiAPI for that fragment, and the  *)
(* other symbols for single characters.                                     *)
(***************************************************************************)
EXTENDS Integers, Sequences, FiniteSets, TLC

----------------------------------------------------------------------------
(* Bounds of the model *)

\* turns a screen may start
MaxTurns == 1
\* booking documents in the store when the screens are mounted
MaxInitBookings == 1
\* (user, assistant) message pairs of a drawn transcript
MaxPairs == 4
\* calls of toggleFavorite / toggleActivityFavorite
MaxToggles == 3
\* documents of collection 'locations'
MaxLocations == 2
\* presses of the Book button of the activity detail screen
MaxPresses == 2
\* activities handed to processActivityRoutes
MaxMapActivities == 2
\* location ids an activity lists, and locations handed to processActivityRoutes
MaxStops == 3

(* Program constants *)

\* const maxParticipants = 50
maxParticipants == 50

----------------------------------------------------------------------------
(* Strings *)

Sentinel == "BOOK_ACTIVITY:"
Whitespace == {" ", "\n"}
Chars == {Sentinel, "a", "b", "confirm"} \cup Whitespace

\* String.prototype.includes(tok)
Includes(str, tok) == \E i \in 1..Len(str) : str[i] = tok

\* String.prototype.indexOf(tok) (1-based; only used when Includes)
IndexOf(str, tok) ==
  CHOOSE i \in 1..Len(str) : str[i] = tok /\ \A j \in 1..(i-1) : str[j] # tok

\* str.split(tok)[1] for a str that includes tok: the text between the first
\* occurrence of tok and the next one (or the end of the string)
SplitSecond(str, tok) ==
  LET rest == SubSeq(str, IndexOf(str, tok) + 1, Len(str))
  IN  IF Includes(rest, tok) THEN SubSeq(rest, 1, IndexOf(rest, tok) - 1) ELSE rest

\* String.prototype.trim()
Trim(str) ==
  LET keep == {i \in 1..Len(str) : str[i] \notin Whitespace}
  IN  IF keep = {} THEN << >>
      ELSE SubSeq(str, CHOOSE i \in keep : \A j \in keep : i <= j,
                       CHOOSE i \in keep : \A j \in keep : j <= i)

\* response.split('BOOK_ACTIVITY:')[1].trim()
ExtractActivityId(response) == Trim(SplitSecond(response, Sentinel))

\* the fragments callGeminiAPI looks for in the last assistant message
Fragments == {"Would you like to book", "book this activity", "confirm", "Just to confirm"}

\* Array.prototype.slice(-n)
Slice(seq, n) == IF Len(seq) <= n THEN seq ELSE SubSeq(seq, Len(seq) - n + 1, Len(seq))

----------------------------------------------------------------------------
(* The universe *)

Users == {"u1", "u2"}
Screens == {"s1", "s2"}
\* turn slots, each an invocation of handleSendMessage: one per screen, and a
\* second one on s1 for a call made while the first is in flight
Turns == {"t1", "t2", "t3"}
FirstSlots == {"t1", "t2"}
ScreenOf(t) == IF t \in {"t1", "t3"} THEN "s1" ELSE "s2"

\* ids of the activity documents of the store
ActivityIds == {<<"a">>}
\* activity ids that booking documents may carry: "b" was removed from the store
BookedIds == ActivityIds \cup {<<"b">>}
Statuses == {"confirmed", "pending", "cancelled"}

\* what the user may type (inputText.trim() is not empty)
UserTexts == {<<"a">>}

\* replies of the generation endpoint in a chat turn
ChatReplies ==
  { << >>, <<"a", " ", "b", "\n">>, <<"confirm">>, <<Sentinel, "a">>,
    <<"a", "\n", Sentinel, "b", "\n", Sentinel, "a">>, <<Sentinel, "a", " ", "b">> }

----------------------------------------------------------------------------
(* Message texts *)

Txt(kind, body, n) == [kind |-> kind, body |-> body, n |-> n]

WelcomeText == Txt("welcome", << >>, 0)
UserText(str) == Txt("user", str, 0)
RawReply(str) == Txt("reply", str, 0)
\* "I need access to your Gemini API key ..."
NeedKeyText == Txt("needKey", << >>, 0)
\* 'I apologize, but I couldn't process your request. Please try again.'
ApologyText == Txt("apology", << >>, 0)
\* "I'm having trouble connecting to the AI service. ..."
TroubleText == Txt("trouble", << >>, 0)
\* "I'm sorry, I encountered an error. Please try again."
ErrorText == Txt("error", << >>, 0)
\* "You're already booked for this activity!"
AlreadyText == Txt("already", << >>, 0)
\* "Activity not found."
NotFoundText == Txt("notFound", << >>, 0)
\* "This activity is no longer available for booking."
UnavailableText == Txt("unavailable", << >>, 0)
\* `Sorry, this activity is full! (${n}/${maxParticipants} participants)`
FullText(n) == Txt("full", << >>, n)
\* `Successfully booked "${title}"! ... You're participant ${n}/${maxParticipants}.`
SuccessText(title, n) == Txt("success", title, n)
\* "Failed to create booking. Please try again."
FailedText == Txt("failed", << >>, 0)

Message(isUser, text) == [isUser |-> isUser, text |-> text]

----------------------------------------------------------------------------
(* Favourites kept on the device *)

FAVORITES_STORAGE_KEY == "@meshwar_favorites"
ACTIVITY_FAVORITES_STORAGE_KEY == "@meshwar_activity_favorites"
StorageKeys == {FAVORITES_STORAGE_KEY, ACTIVITY_FAVORITES_STORAGE_KEY}

\* ids of the locations and activities the user may toggle
FavItems == {"x", "y"}

\* AsyncStorage.getItem of a key without item gives null
Null == << >>

\* JSON.stringify / JSON.parse of a list of records, by their ids
Stringify(list) == <<"[">> \o list \o <<"]">>
Parse(str) == SubSeq(str, 2, Len(str) - 1)

\* items a previous run of the app may have left in AsyncStorage
StoredItems == {Null, Stringify(<< >>), Stringify(<<"x">>)}

\* invocations of toggleFavorite / toggleActivityFavorite that may overlap
ToggleSlots == {"g1", "g2"}
NoToggle == [pc |-> "idle", key |-> FAVORITES_STORAGE_KEY, item |-> "x",
             favorites |-> << >>, newFavorites |-> << >>, outcome |-> "none",
             failed |-> FALSE]

\* a toggle that always appends
ToggledAppend(list, item) == Append(list, item)

\* favorites.some(fav => fav.id === item.id) ? favorites.filter(...) : [...favorites, item]
Toggled(list, item) ==
  IF \E i \in 1..Len(list) : list[i] = item
    THEN SelectSeq(list, LAMBDA f : f # item)
    ELSE Append(list, item)

----------------------------------------------------------------------------
(* The activity detail screen *)

\* the route parameter id and the signed-in user of the detail screen
DetailId == <<"a">>
DetailUser == "u1"

\* the screen just mounted: useState initial values, fetchActivity at its await
\* (activity: {} for null, else the set holding the record)
DetailScreen ==
  [mounted |-> TRUE, fetchPc |-> "getDoc", activity |-> {}, loading |-> TRUE,
   checkPc |-> "idle", checkingBooking |-> FALSE, isAlreadyBooked |-> FALSE,
   bookPc |-> "idle", bookingLoading |-> FALSE, showSuccessNotification |-> FALSE,
   timers |-> 0, presses |-> 0, inserted |-> 0]

NoDetailScreen == [DetailScreen EXCEPT !.mounted = FALSE, !.fetchPc = "done"]

----------------------------------------------------------------------------
(* The map component *)

\* no call of processActivityRoutes: useState<any[]>([]) of activityRoutes
NoMap == [pc |-> "none", activities |-> << >>, allLocations |-> << >>, routes |-> << >>]

----------------------------------------------------------------------------
(* State *)

VARIABLES
  \* the document store
  activitiesDb,     \* collection 'activities': id -> availability flags of the document
  bookingsDb,       \* collection 'bookings' of the users of the model: sequence of documents
  othersConfirmed,  \* confirmed bookings per activity held by users outside the model
  \* React state of each chat screen
  user,             \* useAuth().user.uid
  messages,         \* useState<Message[]>
  loading,          \* useState(false)
  locations,        \* useState<Location[]>: list of location records
  activities,       \* useState<Activity[]>: set of activity records
  userBookings,     \* useState<Booking[]>
  userProfile,      \* useState<any>(null): "null" | "noKey" | "key"
  loadPc,           \* position of loadInitialData ("unmounted": no such screen)
  \* one invocation of handleSendMessage per turn slot
  pc,               \* position: "idle" | "noKey" | "fetch" | "existing" | "count" | "setDoc"
  closure,          \* state values captured by the render the handler was called
                    \* from, and callGeminiAPI's conversationContext (the messages
                    \* it is made of) and isActiveBookingDiscussion
  response,         \* const response = await callGeminiAPI(...)
  activityId,       \* argument of createBooking
  currentBookingCount,  \* allBookingsSnapshot.size
  result,           \* what createBooking returned (NoResult until it returns)
  \* bookkeeping of the last turn of each slot
  turns,            \* turns started
  sentAt,           \* length of the transcript when the turn started
  heldAtCall,       \* the store held a booking for (user, activityId) when createBooking was called
  requests,         \* generation requests issued (fetch calls of callGeminiAPI)
  genOutcome,       \* how the generation request ended ("none": not yet, "noRequest")
  invocations,      \* calls of createBooking
  \* what the closures of the current render of each screen hold
  rendered,
  \* FavoritesProvider
  favorites,          \* useState<Location[]>([]): list of location ids
  favoriteActivities, \* useState<Activity[]>([]): list of activity ids
  favoritesLoading,   \* useState(true)
  storage,            \* AsyncStorage: key -> stored string (Null: no item)
  loadFavoritesPc,    \* "read" | "resolved" | "rejected" (the getItem calls), then
                      \* "loaded" | "caught" (where loadFavorites ended)
  storedItems,        \* [storedFavorites, storedActivityFavorites] as read
  toggle,             \* the calls of toggleFavorite / toggleActivityFavorite in flight
  toggleCalls,        \* calls made
  \* ActivityDetailScreen (src/app/activity/[id].tsx) of user u1 for one activity
  detail,             \* its useState values and the positions of its handlers
  \* Map (src/components/Map.native.tsx)
  mapData             \* a call of processActivityRoutes: its arguments and what it returned

storeVars == <<activitiesDb, bookingsDb, othersConfirmed>>
screenVars == <<user, messages, loading, locations, activities, userBookings, userProfile, loadPc>>
turnVars == <<pc, closure, response, activityId, currentBookingCount, result>>
histVars == <<turns, sentAt, heldAtCall, requests, genOutcome, invocations>>
favVars == <<favorites, favoriteActivities, favoritesLoading, storage, loadFavoritesPc,
             storedItems, toggle, toggleCalls>>
chatVars == <<storeVars, screenVars, turnVars, histVars, rendered>>
vars == <<chatVars, favVars, detail, mapData>>

----------------------------------------------------------------------------
(* The document store *)

Available(doc) == doc.isActive /\ ~doc.isExpired

BookingDoc(id, aid, uid, status) ==
  [id |-> id, activityId |-> aid, userId |-> uid, status |-> status]

\* the store holds a booking document of any status for (uid, aid)
Holds(uid, aid) ==
  \E i \in 1..Len(bookingsDb) :
    bookingsDb[i].userId = uid /\ bookingsDb[i].activityId = aid

\* a duplicate query that also filters on status == 'confirmed'
ExistingConfirmedBookings(uid, aid) ==
  SelectSeq(bookingsDb,
            LAMBDA b : b.userId = uid /\ b.activityId = aid /\ b.status = "confirmed")

\* query(bookings, where userId == uid, where activityId == aid)
ExistingBookings(uid, aid) ==
  SelectSeq(bookingsDb, LAMBDA b : b.userId = uid /\ b.activityId = aid)

\* the confirmed bookings of the users of the model for activity aid
ConfirmedDocs(aid) ==
  SelectSeq(bookingsDb, LAMBDA b : b.activityId = aid /\ b.status = "confirmed")

\* query(bookings, where activityId == aid, where status == 'confirmed').size
ConfirmedCount(aid) == othersConfirmed[aid] + Len(ConfirmedDocs(aid))

\* query(bookings, where userId == uid)
BookingsOfUser(uid) == SelectSeq(bookingsDb, LAMBDA b : b.userId = uid)

\* the activities query without its where clauses
AllActivities(participants) ==
  { [id |-> a, isActive |-> activitiesDb[a].isActive,
     isExpired |-> activitiesDb[a].isExpired,
     currentParticipants |-> participants[a]]
    : a \in ActivityIds }

\* query(activities, where isActive == true, where isExpired == false);
\* participants[a] is the currentParticipants field of document a as read
AvailableActivities(participants) ==
  { [id |-> a, isActive |-> activitiesDb[a].isActive,
     isExpired |-> activitiesDb[a].isExpired,
     currentParticipants |-> participants[a]]
    : a \in {x \in ActivityIds : Available(activitiesDb[x])} }

\* doc(collection(db, 'bookings')): a new document id per call
NewBookingId == Len(bookingsDb) + 1

NoText == Txt("none", << >>, 0)
NoResult == [success |-> FALSE, message |-> NoText]
Outcome(success, message) == [success |-> success, message |-> message]

----------------------------------------------------------------------------
(* Initial state: the store as the screens find it, and every mounted screen
   just mounted with a signed-in user (the effect on [user] has called
   loadInitialData, now at its first await, and addWelcomeMessage) *)

ActivityDocs == [isActive : BOOLEAN, isExpired : BOOLEAN]

\* values of the currentParticipants field and of the users/{uid} document, which
\* the screens only read
ParticipantCounts == {0, maxParticipants}
ProfileDocs == {"absent", "noKey", "key"}

\* stores with at most one booking per (user, activity)
InitialBookings ==
  { bs \in UNION {[1..k -> [activityId : BookedIds, userId : Users, status : Statuses]]
                  : k \in 0..MaxInitBookings} :
      \A i, j \in 1..Len(bs) :
        (bs[i].activityId = bs[j].activityId /\ bs[i].userId = bs[j].userId) => i = j }

InitStore ==
  /\ activitiesDb \in [ActivityIds -> ActivityDocs]
  /\ \E bs \in InitialBookings :
       bookingsDb = [i \in 1..Len(bs) |->
                       BookingDoc(i, bs[i].activityId, bs[i].userId, bs[i].status)]
  /\ othersConfirmed \in [ActivityIds -> {0, maxParticipants - 1, maxParticipants}]

\* the state values a render of the screen hands to its handlers
Render(l, m, a, p) == [loading |-> l, messages |-> m, activities |-> a, userProfile |-> p]

\* addWelcomeMessage
WelcomeMessages == <<Message(FALSE, WelcomeText)>>

\* no invocation of handleSendMessage yet
InitTurns ==
  /\ pc = [t \in Turns |-> "idle"]
  /\ closure = [t \in Turns |-> [activities |-> {}, userProfile |-> "null", messages |-> << >>,
                                 conversationContext |-> << >>,
                                 isActiveBookingDiscussion |-> FALSE]]
  /\ response = [t \in Turns |-> NoText]
  /\ activityId = [t \in Turns |-> << >>]
  /\ currentBookingCount = [t \in Turns |-> 0]
  /\ result = [t \in Turns |-> NoResult]
  /\ turns = [t \in Turns |-> 0]
  /\ sentAt = [t \in Turns |-> 0]
  /\ heldAtCall = [t \in Turns |-> FALSE]
  /\ requests = [t \in Turns |-> 0]
  /\ genOutcome = [t \in Turns |-> "none"]
  /\ invocations = [t \in Turns |-> 0]

InitScreens(mounted) ==
  /\ messages = [s \in Screens |-> IF s \in mounted THEN WelcomeMessages ELSE << >>]
  /\ loading = [s \in Screens |-> FALSE]
  /\ locations = [s \in Screens |-> << >>]
  /\ activities = [s \in Screens |-> {}]
  /\ userBookings = [s \in Screens |-> << >>]
  /\ userProfile = [s \in Screens |-> "null"]
  /\ loadPc = [s \in Screens |-> IF s \in mounted THEN "locations" ELSE "unmounted"]
  /\ InitTurns
  /\ rendered = [s \in Screens |-> Render(loading[s], messages[s], activities[s], userProfile[s])]

\* FavoritesProvider just mounted: the effect has called loadFavorites, now at
\* its await; stored[k] is the item a previous run left under key k
InitProvider(stored) ==
  /\ favorites = << >>
  /\ favoriteActivities = << >>
  /\ favoritesLoading = TRUE
  /\ storage = stored
  /\ loadFavoritesPc = "read"
  /\ storedItems = [k \in StorageKeys |-> Null]
  /\ toggle = [g \in ToggleSlots |-> NoToggle]
  /\ toggleCalls = 0

NothingStored == [k \in StorageKeys |-> Null]

Init ==
  /\ InitStore
  /\ user = [s \in Screens |-> IF s = "s1" THEN "u1" ELSE "u2"]
  /\ InitScreens({"s1"})
  /\ InitProvider(NothingStored)
  /\ detail = NoDetailScreen
  /\ mapData = NoMap

InitDevices ==
  /\ InitStore
  /\ user \in {f \in [Screens -> Users] : f["s1"] = "u1"}
  /\ InitScreens(Screens)
  /\ InitProvider(NothingStored)
  /\ detail = NoDetailScreen
  /\ mapData = NoMap

----------------------------------------------------------------------------
(* loadInitialData: one action per await; a rejected await lands in the catch,
   which logs and returns *)

\* locationsData: the documents of collection 'locations' as read
LoadLocations(s, ok, locationsData) ==
  /\ loadPc[s] = "locations"
  /\ IF ok
       THEN /\ locations' = [locations EXCEPT ![s] = locationsData]
            /\ loadPc' = [loadPc EXCEPT ![s] = "activities"]
       ELSE /\ loadPc' = [loadPc EXCEPT ![s] = "done"]
            /\ UNCHANGED locations
  /\ UNCHANGED <<storeVars, user, messages, loading, activities, userBookings,
                 userProfile, turnVars, histVars>>

LoadActivities(s, ok, participants) ==
  /\ loadPc[s] = "activities"
  /\ participants \in [ActivityIds -> ParticipantCounts]
  /\ IF ok
       THEN /\ activities' = [activities EXCEPT ![s] = AvailableActivities(participants)]
            /\ loadPc' = [loadPc EXCEPT ![s] = "bookings"]
       ELSE /\ loadPc' = [loadPc EXCEPT ![s] = "done"]
            /\ UNCHANGED activities
  /\ UNCHANGED <<storeVars, user, messages, loading, locations, userBookings,
                 userProfile, turnVars, histVars>>

LoadBookings(s, ok) ==
  /\ loadPc[s] = "bookings"
  /\ IF ok
       THEN /\ userBookings' = [userBookings EXCEPT ![s] = BookingsOfUser(user[s])]
            /\ loadPc' = [loadPc EXCEPT ![s] = "profile"]
       ELSE /\ loadPc' = [loadPc EXCEPT ![s] = "done"]
            /\ UNCHANGED userBookings
  /\ UNCHANGED <<storeVars, user, messages, loading, locations, activities,
                 userProfile, turnVars, histVars>>

LoadProfile(s, ok, userDoc) ==
  /\ loadPc[s] = "profile"
  /\ userDoc \in ProfileDocs
  /\ IF ok
       THEN /\ userProfile' = [userProfile EXCEPT ![s] =
                 IF userDoc = "absent" THEN "null" ELSE userDoc]
            /\ loadPc' = [loadPc EXCEPT ![s] = "enhance"]
       ELSE /\ loadPc' = [loadPc EXCEPT ![s] = "done"]
            /\ UNCHANGED userProfile
  /\ UNCHANGED <<storeVars, user, messages, loading, locations, activities,
                 userBookings, turnVars, histVars>>

\* the strings of a location record; '' is the empty sequence
Unknown == <<"Unknown location">>
Or(str, other) == IF str # << >> THEN str ELSE other

\* what the reverse-geocoding call of one location came back with: a rejected
\* fetch or json() (ok = FALSE), or the fields of the parsed body
GeoResults ==
  [ok : {FALSE}, city : {<< >>}, locality : {<< >>}, countryName : {<< >>}]
  \cup [ok : {TRUE}, city : {<< >>, <<"c">>}, locality : {<< >>, <<"l">>},
         countryName : {<< >>, <<"k">>}]

\* coordinatePlaceName of getEnhancedPlaceInfo
CoordinatePlaceName(data) ==
  IF ~data.ok THEN << >>
  ELSE IF data.city # << >> /\ data.countryName # << >>
    THEN data.city \o <<", ">> \o
           (IF data.locality # << >> THEN data.locality \o <<", ">> ELSE << >>) \o
           data.countryName
  ELSE IF data.locality # << >> /\ data.countryName # << >>
    THEN data.locality \o <<", ">> \o data.countryName
  ELSE << >>

\* getEnhancedPlaceInfo(location) given what its geocoding call came back with
GetEnhancedPlaceInfo(location, data) ==
  LET addressInfo == location.address
      coordinatePlaceName == CoordinatePlaceName(data)
      placeName == Or(addressInfo, location.name)
      fullContext ==
        IF coordinatePlaceName # << >> /\ coordinatePlaceName # addressInfo
          THEN IF addressInfo # << >>
                 THEN addressInfo \o <<" (">> \o coordinatePlaceName \o <<")">>
                 ELSE coordinatePlaceName
          ELSE addressInfo
  IN  [placeName |-> Or(placeName, Unknown), fullContext |-> Or(fullContext, Unknown)]

\* { ...location, placeName, fullPlaceContext }
Enhanced(location, data) ==
  [name |-> location.name, address |-> location.address,
   placeName |-> GetEnhancedPlaceInfo(location, data).placeName,
   fullPlaceContext |-> GetEnhancedPlaceInfo(location, data).fullContext]

\* getEnhancedPlaceInfo without its catch blocks: one rejected geocoding call
\* rejects Promise.all and loadInitialData's catch logs
EnhanceLocationsUncaught(s, geo) ==
  /\ loadPc[s] = "enhance"
  /\ geo \in [1..Len(locations[s]) -> GeoResults]
  /\ locations' = [locations EXCEPT ![s] =
                     IF \E i \in 1..Len(geo) : ~geo[i].ok THEN @
                     ELSE [i \in 1..Len(@) |-> Enhanced(@[i], geo[i])]]
  /\ loadPc' = [loadPc EXCEPT ![s] = "done"]
  /\ UNCHANGED <<storeVars, user, messages, loading, activities, userBookings,
                 userProfile, turnVars, histVars>>

\* Promise.all over getEnhancedPlaceInfo, which catches its own failures;
\* geo[i]: what the geocoding call of the i-th location came back with
EnhanceLocations(s, geo) ==
  /\ loadPc[s] = "enhance"
  /\ geo \in [1..Len(locations[s]) -> GeoResults]
  /\ locations' = [locations EXCEPT ![s] = [i \in 1..Len(@) |-> Enhanced(@[i], geo[i])]]
  /\ loadPc' = [loadPc EXCEPT ![s] = "done"]
  /\ UNCHANGED <<storeVars, user, messages, loading, activities, userBookings,
                 userProfile, turnVars, histVars>>

----------------------------------------------------------------------------
(* handleSendMessage, callGeminiAPI and createBooking *)

\* positions inside createBooking
ExecPcs == {"existing", "count", "setDoc"}

\* end of handleSendMessage: setMessages(prev => [...prev, aiMessage]) in the try
\* or catch block, then setLoading(false) in the finally block
AppendReply(t, text) ==
  /\ messages' = [messages EXCEPT ![ScreenOf(t)] = Append(@, Message(FALSE, text))]
  /\ loading' = [loading EXCEPT ![ScreenOf(t)] = FALSE]
  /\ pc' = [pc EXCEPT ![t] = "idle"]

\* a flag that asks for all four fragments
ContainsFragmentEvery(text) == \A f \in Fragments : Includes(text.body, f)

\* lastAIMessage.includes(f) for one of the fragments
ContainsFragment(text) == \E f \in Fragments : Includes(text.body, f)

\* recentMessages.filter(msg => !msg.isUser).pop()?.text || ''
LastAIMessage(msgs) ==
  LET ai == SelectSeq(Slice(msgs, 8), LAMBDA m : ~m.isUser)
  IN  IF ai = << >> THEN NoText ELSE ai[Len(ai)].text

\* const isActiveBookingDiscussion = ... in callGeminiAPI
ActiveBookingDiscussion(msgs) == ContainsFragment(LastAIMessage(msgs))

\* handleSendMessage up to the first await inside callGeminiAPI
HandleSendMessage(t, text) ==
  LET s == ScreenOf(t) IN
  /\ pc[t] = "idle"
  /\ turns[t] < MaxTurns
  /\ text \in UserTexts
  /\ ~rendered[s].loading
  /\ messages' = [messages EXCEPT ![s] = Append(@, Message(TRUE, UserText(text)))]
  /\ loading' = [loading EXCEPT ![s] = TRUE]
  /\ closure' = [closure EXCEPT ![t] =
                   [activities |-> rendered[s].activities,
                    userProfile |-> rendered[s].userProfile,
                    messages |-> rendered[s].messages,
                    conversationContext |->
                      IF rendered[s].userProfile = "key"
                        THEN Slice(rendered[s].messages, 8) ELSE << >>,
                    isActiveBookingDiscussion |->
                      IF rendered[s].userProfile = "key"
                        THEN ActiveBookingDiscussion(rendered[s].messages) ELSE FALSE]]
  /\ pc' = [pc EXCEPT ![t] = IF rendered[s].userProfile = "key" THEN "fetch" ELSE "noKey"]
  /\ requests' = [requests EXCEPT ![t] = IF rendered[s].userProfile = "key" THEN 1 ELSE 0]
  /\ genOutcome' = [genOutcome EXCEPT ![t] = "none"]
  /\ invocations' = [invocations EXCEPT ![t] = 0]
  /\ response' = [response EXCEPT ![t] = NoText]
  /\ activityId' = [activityId EXCEPT ![t] = << >>]
  /\ currentBookingCount' = [currentBookingCount EXCEPT ![t] = 0]
  /\ result' = [result EXCEPT ![t] = NoResult]
  /\ turns' = [turns EXCEPT ![t] = @ + 1]
  /\ sentAt' = [sentAt EXCEPT ![t] = Len(messages[s])]
  /\ heldAtCall' = [heldAtCall EXCEPT ![t] = FALSE]
  /\ UNCHANGED <<storeVars, user, locations, activities, userBookings, userProfile, loadPc>>

\* what the fetch of callGeminiAPI can come back with
GenOutcomes ==
  [kind : {"networkError", "non2xx", "badJson", "noCandidate", "textNotString"}, text : {<< >>}]
  \cup [kind : {"ok"}, text : ChatReplies]

\* callGeminiAPI without its try/catch: a failed request or parse is thrown
\* to handleSendMessage
GeminiResponseNoCatch(o) ==
  CASE o.kind \in {"networkError", "non2xx", "badJson"} -> Txt("notString", << >>, 0)
    [] o.kind = "noCandidate" -> ApologyText
    [] o.kind = "textNotString" -> Txt("notString", << >>, 0)
    [] o.kind = "ok" -> IF o.text = << >> THEN ApologyText ELSE RawReply(o.text)

\* callGeminiAPI from the resumption of fetch to its return value
GeminiResponse(o) ==
  CASE o.kind \in {"networkError", "non2xx", "badJson"} -> TroubleText
    [] o.kind = "noCandidate" -> ApologyText
    [] o.kind = "textNotString" -> Txt("notString", << >>, 0)
    [] o.kind = "ok" -> IF o.text = << >> THEN ApologyText ELSE RawReply(o.text)

\* response.includes('BOOK_ACTIVITY:')
HasSentinel(resp) == resp.kind = "reply" /\ Includes(resp.body, Sentinel)

\* handleSendMessage with a finally block but no catch block
InterpretNoCatch(t, resp) ==
  /\ response' = [response EXCEPT ![t] = resp]
  /\ IF resp.kind = "notString"
       THEN /\ loading' = [loading EXCEPT ![ScreenOf(t)] = FALSE]
            /\ pc' = [pc EXCEPT ![t] = "idle"]
            /\ UNCHANGED <<messages, activityId, heldAtCall, invocations>>
       ELSE IF HasSentinel(resp)
         THEN /\ activityId' = [activityId EXCEPT ![t] = ExtractActivityId(resp.body)]
              /\ heldAtCall' = [heldAtCall EXCEPT ![t] =
                   Holds(user[ScreenOf(t)], ExtractActivityId(resp.body))]
              /\ invocations' = [invocations EXCEPT ![t] = @ + 1]
              /\ pc' = [pc EXCEPT ![t] = "existing"]
              /\ UNCHANGED <<messages, loading>>
         ELSE /\ AppendReply(t, resp)
              /\ UNCHANGED <<activityId, heldAtCall, invocations>>
  /\ UNCHANGED <<storeVars, user, locations, activities, userBookings, userProfile,
                 loadPc, closure, currentBookingCount, result, turns, sentAt, requests>>

\* handleSendMessage showing response.trim() instead of response
InterpretTrimmed(t, resp) ==
  /\ response' = [response EXCEPT ![t] = resp]
  /\ IF resp.kind = "notString"
       THEN /\ AppendReply(t, ErrorText)
            /\ UNCHANGED <<activityId, heldAtCall, invocations>>
       ELSE IF HasSentinel(resp)
         THEN /\ activityId' = [activityId EXCEPT ![t] = ExtractActivityId(resp.body)]
              /\ heldAtCall' = [heldAtCall EXCEPT ![t] =
                   Holds(user[ScreenOf(t)], ExtractActivityId(resp.body))]
              /\ invocations' = [invocations EXCEPT ![t] = @ + 1]
              /\ pc' = [pc EXCEPT ![t] = "existing"]
              /\ UNCHANGED <<messages, loading>>
         ELSE /\ AppendReply(t, [resp EXCEPT !.body = Trim(@)])
              /\ UNCHANGED <<activityId, heldAtCall, invocations>>
  /\ UNCHANGED <<storeVars, user, locations, activities, userBookings, userProfile,
                 loadPc, closure, currentBookingCount, result, turns, sentAt, requests>>

\* handleSendMessage from `const response = await callGeminiAPI(...)` to the
\* first await inside createBooking, or to its end
Interpret(t, resp) ==
  /\ response' = [response EXCEPT ![t] = resp]
  /\ IF resp.kind = "notString"
       THEN \* response.includes is not a function: the catch block
            /\ AppendReply(t, ErrorText)
            /\ UNCHANGED <<activityId, heldAtCall, invocations>>
       ELSE IF HasSentinel(resp)
         THEN /\ activityId' = [activityId EXCEPT ![t] = ExtractActivityId(resp.body)]
              /\ heldAtCall' = [heldAtCall EXCEPT ![t] =
                   Holds(user[ScreenOf(t)], ExtractActivityId(resp.body))]
              /\ invocations' = [invocations EXCEPT ![t] = @ + 1]
              /\ pc' = [pc EXCEPT ![t] = "existing"]
              /\ UNCHANGED <<messages, loading>>
         ELSE /\ AppendReply(t, resp)
              /\ UNCHANGED <<activityId, heldAtCall, invocations>>
  /\ UNCHANGED <<storeVars, user, locations, activities, userBookings, userProfile,
                 loadPc, closure, currentBookingCount, result, turns, sentAt, requests>>

\* callGeminiAPI sending the request although the key is missing
NoKeyReturnRequests(t) ==
  /\ pc[t] = "noKey"
  /\ pc' = [pc EXCEPT ![t] = "fetch"]
  /\ requests' = [requests EXCEPT ![t] = @ + 1]
  /\ UNCHANGED <<storeVars, screenVars, closure, response, activityId,
                 currentBookingCount, result, turns, sentAt, heldAtCall,
                 genOutcome, invocations>>

\* callGeminiAPI returned the missing-key message without a request
NoKeyReturn(t) ==
  /\ pc[t] = "noKey"
  /\ genOutcome' = [genOutcome EXCEPT ![t] = "noRequest"]
  /\ Interpret(t, NeedKeyText)

\* callGeminiAPI sending the request once more after a network error
FetchReturnRetries(t, o) ==
  /\ pc[t] = "fetch"
  /\ o \in GenOutcomes
  /\ IF o.kind = "networkError" /\ requests[t] < 2
       THEN /\ requests' = [requests EXCEPT ![t] = @ + 1]
            /\ UNCHANGED <<storeVars, screenVars, turnVars, turns, sentAt, heldAtCall,
                           genOutcome, invocations>>
       ELSE /\ genOutcome' = [genOutcome EXCEPT ![t] = o.kind]
            /\ Interpret(t, GeminiResponse(o))

\* the generation request came back
FetchReturn(t, o) ==
  /\ pc[t] = "fetch"
  /\ o \in GenOutcomes
  /\ genOutcome' = [genOutcome EXCEPT ![t] = o.kind]
  /\ Interpret(t, GeminiResponse(o))

\* activities.find(a => a.id === activityId)
FindActivity(acts, aid) == {a \in acts : a.id = aid}

\* createBooking without the duplicate check
GuardOutcomeNoDuplicateCheck(found, acts, aid) ==
  IF FindActivity(acts, aid) = {} THEN Outcome(FALSE, NotFoundText)
  ELSE LET activity == CHOOSE a \in FindActivity(acts, aid) : TRUE IN
       IF ~activity.isActive \/ activity.isExpired THEN Outcome(FALSE, UnavailableText)
       ELSE IF activity.currentParticipants >= maxParticipants
              THEN Outcome(FALSE, FullText(activity.currentParticipants))
              ELSE NoResult

\* createBooking without the `if (!activity)` check: reading activity.isActive
\* throws and the catch block returns the failure outcome
GuardOutcomeNoExistenceCheck(found, acts, aid) ==
  IF found THEN Outcome(FALSE, AlreadyText)
  ELSE IF FindActivity(acts, aid) = {} THEN Outcome(FALSE, FailedText)
  ELSE LET activity == CHOOSE a \in FindActivity(acts, aid) : TRUE IN
       IF ~activity.isActive \/ activity.isExpired THEN Outcome(FALSE, UnavailableText)
       ELSE IF activity.currentParticipants >= maxParticipants
              THEN Outcome(FALSE, FullText(activity.currentParticipants))
              ELSE NoResult

\* createBooking looking the activity up before the duplicate check
GuardOutcomeExistenceFirst(found, acts, aid) ==
  IF FindActivity(acts, aid) = {} THEN Outcome(FALSE, NotFoundText)
  ELSE IF found THEN Outcome(FALSE, AlreadyText)
  ELSE LET activity == CHOOSE a \in FindActivity(acts, aid) : TRUE IN
       IF ~activity.isActive \/ activity.isExpired THEN Outcome(FALSE, UnavailableText)
       ELSE IF activity.currentParticipants >= maxParticipants
              THEN Outcome(FALSE, FullText(activity.currentParticipants))
              ELSE NoResult

\* createBooking between the duplicate query and the count query: the outcome
\* it returns, or NoResult when it goes on to the count query
GuardOutcome(found, acts, aid) ==
  IF found THEN Outcome(FALSE, AlreadyText)
  ELSE IF FindActivity(acts, aid) = {} THEN Outcome(FALSE, NotFoundText)
  ELSE LET activity == CHOOSE a \in FindActivity(acts, aid) : TRUE IN
       IF ~activity.isActive \/ activity.isExpired THEN Outcome(FALSE, UnavailableText)
       ELSE IF activity.currentParticipants >= maxParticipants
              THEN Outcome(FALSE, FullText(activity.currentParticipants))
              ELSE NoResult

\* the capacity check with > for >=
CapacityOutcomeOffByOne(count) ==
  IF count > maxParticipants THEN Outcome(FALSE, FullText(count)) ELSE NoResult

\* createBooking after the count query
CapacityOutcome(count) ==
  IF count >= maxParticipants THEN Outcome(FALSE, FullText(count)) ELSE NoResult

\* createBooking returns `out`, handleSendMessage shows its message
ReturnOutcome(t, out) ==
  /\ result' = [result EXCEPT ![t] = out]
  /\ AppendReply(t, out.message)

\* the duplicate query of createBooking came back (ok) or was rejected
ExistingReturn(t, ok) ==
  LET s == ScreenOf(t)
      out == IF ok THEN GuardOutcome(ExistingBookings(user[s], activityId[t]) # << >>,
                                     closure[t].activities, activityId[t])
                   ELSE Outcome(FALSE, FailedText)
  IN
  /\ pc[t] = "existing"
  /\ IF out = NoResult
       THEN /\ pc' = [pc EXCEPT ![t] = "count"]
            /\ UNCHANGED <<messages, loading, result>>
       ELSE ReturnOutcome(t, out)
  /\ UNCHANGED <<storeVars, user, locations, activities, userBookings, userProfile,
                 loadPc, closure, response, activityId, currentBookingCount, histVars>>

\* createBooking without its try/catch: a rejected count query is thrown to
\* handleSendMessage, whose catch block shows its own error message
CountReturnThrows(t, ok) ==
  LET out == IF ok THEN CapacityOutcome(ConfirmedCount(activityId[t])) ELSE NoResult
  IN
  /\ pc[t] = "count"
  /\ IF ~ok
       THEN /\ AppendReply(t, ErrorText)
            /\ UNCHANGED <<result, currentBookingCount>>
       ELSE IF out = NoResult
         THEN /\ pc' = [pc EXCEPT ![t] = "setDoc"]
              /\ currentBookingCount' =
                   [currentBookingCount EXCEPT ![t] = ConfirmedCount(activityId[t])]
              /\ UNCHANGED <<messages, loading, result>>
         ELSE /\ ReturnOutcome(t, out)
              /\ UNCHANGED currentBookingCount
  /\ UNCHANGED <<storeVars, user, locations, activities, userBookings, userProfile,
                 loadPc, closure, response, activityId, histVars>>

\* the confirmed-bookings query of createBooking came back (ok) or was rejected
CountReturn(t, ok) ==
  LET out == IF ok THEN CapacityOutcome(ConfirmedCount(activityId[t]))
                   ELSE Outcome(FALSE, FailedText)
  IN
  /\ pc[t] = "count"
  /\ IF out = NoResult
       THEN /\ pc' = [pc EXCEPT ![t] = "setDoc"]
            /\ currentBookingCount' =
                 [currentBookingCount EXCEPT ![t] = ConfirmedCount(activityId[t])]
            /\ UNCHANGED <<messages, loading, result>>
       ELSE /\ ReturnOutcome(t, out)
            /\ UNCHANGED currentBookingCount
  /\ UNCHANGED <<storeVars, user, locations, activities, userBookings, userProfile,
                 loadPc, closure, response, activityId, histVars>>

\* createBooking reporting the fetched count as the participant's position
SetDocReturnStalePosition(t, ok) ==
  LET s == ScreenOf(t)
      newBooking == BookingDoc(NewBookingId, activityId[t], user[s], "confirmed")
  IN
  /\ pc[t] = "setDoc"
  /\ IF ok
       THEN /\ bookingsDb' = Append(bookingsDb, newBooking)
            /\ userBookings' = [userBookings EXCEPT ![s] = Append(@, newBooking)]
            /\ ReturnOutcome(t, Outcome(TRUE,
                 SuccessText(activityId[t], currentBookingCount[t])))
       ELSE /\ ReturnOutcome(t, Outcome(FALSE, FailedText))
            /\ UNCHANGED <<bookingsDb, userBookings>>
  /\ UNCHANGED <<activitiesDb, othersConfirmed, user, locations, activities,
                 userProfile, loadPc, closure, response, activityId,
                 currentBookingCount, histVars>>

\* createBooking writing through a conditional insert: the store rejects the
\* write when it holds a booking for the pair or the activity is full
SetDocReturnConditional(t, ok) ==
  LET s == ScreenOf(t)
      newBooking == BookingDoc(NewBookingId, activityId[t], user[s], "confirmed")
  IN
  /\ pc[t] = "setDoc"
  /\ IF ok
       THEN /\ ~Holds(user[s], activityId[t])
            /\ ConfirmedCount(activityId[t]) < maxParticipants
            /\ bookingsDb' = Append(bookingsDb, newBooking)
            /\ userBookings' = [userBookings EXCEPT ![s] = Append(@, newBooking)]
            /\ ReturnOutcome(t, Outcome(TRUE,
                 SuccessText(activityId[t], currentBookingCount[t] + 1)))
       ELSE /\ ReturnOutcome(t, Outcome(FALSE, FailedText))
            /\ UNCHANGED <<bookingsDb, userBookings>>
  /\ UNCHANGED <<activitiesDb, othersConfirmed, user, locations, activities,
                 userProfile, loadPc, closure, response, activityId,
                 currentBookingCount, histVars>>

\* setDoc of createBooking was applied and acknowledged (ok) or was rejected
SetDocReturn(t, ok) ==
  LET s == ScreenOf(t)
      newBooking == BookingDoc(NewBookingId, activityId[t], user[s], "confirmed")
  IN
  /\ pc[t] = "setDoc"
  /\ IF ok
       THEN /\ bookingsDb' = Append(bookingsDb, newBooking)
            /\ userBookings' = [userBookings EXCEPT ![s] = Append(@, newBooking)]
            /\ ReturnOutcome(t, Outcome(TRUE,
                 SuccessText(activityId[t], currentBookingCount[t] + 1)))
       ELSE /\ ReturnOutcome(t, Outcome(FALSE, FailedText))
            /\ UNCHANGED <<bookingsDb, userBookings>>
  /\ UNCHANGED <<activitiesDb, othersConfirmed, user, locations, activities,
                 userProfile, loadPc, closure, response, activityId,
                 currentBookingCount, histVars>>

----------------------------------------------------------------------------
(* The store changes behind the screens' backs *)

\* an administrator activates, deactivates or expires an activity
SetActivityFlags(a, isActive, isExpired) ==
  /\ activitiesDb[a].isActive # isActive \/ activitiesDb[a].isExpired # isExpired
  /\ activitiesDb' = [activitiesDb EXCEPT ![a].isActive = isActive,
                                          ![a].isExpired = isExpired]
  /\ UNCHANGED <<bookingsDb, othersConfirmed, screenVars, turnVars, histVars>>

\* the effect on [user] runs again: the auth provider hands the mounted screen
\* another signed-in user (here only between turns and after the previous load)
UserEffect(s, u) ==
  /\ loadPc[s] = "done"
  /\ \A t \in Turns : ScreenOf(t) = s => pc[t] = "idle"
  /\ u \in Users \ {user[s]}
  /\ user' = [user EXCEPT ![s] = u]
  /\ loadPc' = [loadPc EXCEPT ![s] = "locations"]
  /\ messages' = [messages EXCEPT ![s] = WelcomeMessages]
  /\ UNCHANGED <<storeVars, loading, locations, activities, userBookings, userProfile,
                 turnVars, histVars>>

\* React renders screen s: its handlers now close over the current state
RenderScreen(s) ==
  /\ rendered[s] # Render(loading[s], messages[s], activities[s], userProfile[s])
  /\ rendered' = [rendered EXCEPT ![s] =
                    Render(loading[s], messages[s], activities[s], userProfile[s])]
  /\ UNCHANGED <<storeVars, screenVars, turnVars, histVars, favVars, detail, mapData>>

----------------------------------------------------------------------------
(* FavoritesProvider: loadFavorites, toggleFavorite, toggleActivityFavorite *)

\* AsyncStorage executes the two getItem calls of loadFavorites (ok), or one of
\* them fails; the promise is settled and loadFavorites resumes later
GetItems(ok) ==
  /\ loadFavoritesPc = "read"
  /\ loadFavoritesPc' = IF ok THEN "resolved" ELSE "rejected"
  /\ storedItems' = IF ok THEN storage ELSE storedItems
  /\ UNCHANGED <<favorites, favoriteActivities, favoritesLoading, storage, toggle,
                 toggleCalls, chatVars, detail, mapData>>

\* loadFavorites from the resumption of Promise.all([getItem, getItem]); ok:
\* both reads succeeded
LoadFavoritesReturn(ok) ==
  /\ loadFavoritesPc = (IF ok THEN "resolved" ELSE "rejected")
  /\ IF ok
       THEN /\ favorites' = IF storedItems[FAVORITES_STORAGE_KEY] # Null
                               THEN Parse(storedItems[FAVORITES_STORAGE_KEY]) ELSE favorites
            /\ favoriteActivities' =
                 IF storedItems[ACTIVITY_FAVORITES_STORAGE_KEY] # Null
                   THEN Parse(storedItems[ACTIVITY_FAVORITES_STORAGE_KEY])
                   ELSE favoriteActivities
            /\ loadFavoritesPc' = "loaded"
       ELSE /\ loadFavoritesPc' = "caught"
            /\ UNCHANGED <<favorites, favoriteActivities>>
  /\ favoritesLoading' = FALSE
  /\ UNCHANGED <<storage, storedItems, toggle, toggleCalls, chatVars, detail, mapData>>

\* isFavorite(locationId), isActivityFavorite(activityId)
isFavorite(locationId) == \E i \in 1..Len(favorites) : favorites[i] = locationId
isActivityFavorite(id) ==
  \E i \in 1..Len(favoriteActivities) : favoriteActivities[i] = id

\* a call of a toggle function up to the await of setItem in its save function
StartToggle(g, key, list, item) ==
  /\ toggle[g].pc = "idle"
  /\ toggleCalls < MaxToggles
  /\ toggle' = [toggle EXCEPT ![g] = [pc |-> "write", key |-> key, item |-> item,
                                       favorites |-> list,
                                       newFavorites |-> Toggled(list, item),
                                       outcome |-> "none", failed |-> FALSE]]
  /\ toggleCalls' = toggleCalls + 1
  /\ UNCHANGED <<favorites, favoriteActivities, favoritesLoading, storage, loadFavoritesPc,
                 storedItems, chatVars, detail, mapData>>

ToggleFavorite(g, location) ==
  StartToggle(g, FAVORITES_STORAGE_KEY, favorites, location)

ToggleActivityFavorite(g, activity) ==
  StartToggle(g, ACTIVITY_FAVORITES_STORAGE_KEY, favoriteActivities, activity)

\* the end of a toggle call: resolved, or rejected with what its save function threw
EndToggle(g, outcome, failed) ==
  toggle' = [toggle EXCEPT ![g].pc = "idle", ![g].outcome = outcome, ![g].failed = failed]

\* saveFavorites that sets the state before the write
SaveFavoritesReturnOptimistic(g, ok) ==
  /\ toggle[g].pc = "write"
  /\ toggle[g].key = FAVORITES_STORAGE_KEY
  /\ storage' = IF ok THEN [storage EXCEPT ![FAVORITES_STORAGE_KEY] =
                                             Stringify(toggle[g].newFavorites)]
                       ELSE storage
  /\ favorites' = toggle[g].newFavorites
  /\ EndToggle(g, "resolved", ~ok)
  /\ UNCHANGED <<favoriteActivities, favoritesLoading, loadFavoritesPc, storedItems, toggleCalls,
                 chatVars, detail, mapData>>

\* saveFavorites from the resumption of AsyncStorage.setItem, and the return
\* of toggleFavorite
SaveFavoritesReturn(g, ok) ==
  /\ toggle[g].pc = "write"
  /\ toggle[g].key = FAVORITES_STORAGE_KEY
  /\ IF ok
       THEN /\ storage' = [storage EXCEPT ![FAVORITES_STORAGE_KEY] =
                                            Stringify(toggle[g].newFavorites)]
            /\ favorites' = toggle[g].newFavorites
       ELSE UNCHANGED <<storage, favorites>>
  /\ EndToggle(g, "resolved", ~ok)
  /\ UNCHANGED <<favoriteActivities, favoritesLoading, loadFavoritesPc, storedItems, toggleCalls,
                 chatVars, detail, mapData>>

\* saveActivityFavorites from the resumption of AsyncStorage.setItem, and the
\* return of toggleActivityFavorite
SaveActivityFavoritesReturn(g, ok) ==
  /\ toggle[g].pc = "write"
  /\ toggle[g].key = ACTIVITY_FAVORITES_STORAGE_KEY
  /\ IF ok
       THEN /\ storage' = [storage EXCEPT ![ACTIVITY_FAVORITES_STORAGE_KEY] =
                                            Stringify(toggle[g].newFavorites)]
            /\ favoriteActivities' = toggle[g].newFavorites
       ELSE UNCHANGED <<storage, favoriteActivities>>
  /\ EndToggle(g, "resolved", ~ok)
  /\ UNCHANGED <<favorites, favoritesLoading, loadFavoritesPc, storedItems, toggleCalls,
                 chatVars, detail, mapData>>

----------------------------------------------------------------------------
(* ActivityDetailScreen: fetchActivity, checkExistingBooking, handleBookActivity *)

\* fetchActivity from the resumption of getDoc, and the effect on
\* [user, activity] that follows the render: checkExistingBooking up to its await
FetchActivityReturn(ok) ==
  /\ detail.mounted /\ detail.fetchPc = "getDoc"
  /\ detail' =
       IF ok
         THEN [detail EXCEPT !.fetchPc = "done", !.loading = FALSE,
                 !.activity = {[id |-> DetailId,
                                isActive |-> activitiesDb[DetailId].isActive,
                                isExpired |-> activitiesDb[DetailId].isExpired]},
                 !.checkingBooking = TRUE, !.checkPc = "getDocs"]
         ELSE [detail EXCEPT !.fetchPc = "done", !.loading = FALSE, !.mounted = FALSE]
  /\ UNCHANGED <<chatVars, favVars, mapData>>

\* checkExistingBooking from the resumption of getDocs
CheckExistingBookingReturn(ok) ==
  /\ detail.mounted /\ detail.checkPc = "getDocs"
  /\ detail' = [detail EXCEPT !.checkPc = "idle", !.checkingBooking = FALSE,
                  !.isAlreadyBooked = IF ok THEN Holds(DetailUser, DetailId) ELSE @]
  /\ UNCHANGED <<chatVars, favVars, mapData>>

\* the Book button is rendered and enabled
BookButtonEnabled ==
  /\ detail.mounted /\ ~detail.loading /\ detail.activity # {}
  /\ ~detail.checkingBooking
  /\ ~(detail.bookingLoading \/ detail.isAlreadyBooked)

\* handleBookActivity up to the await of setDoc
HandleBookActivity ==
  /\ BookButtonEnabled
  /\ detail.presses < MaxPresses
  /\ detail.activity # {} /\ ~detail.isAlreadyBooked
  /\ detail' = [detail EXCEPT !.bookingLoading = TRUE, !.bookPc = "setDoc",
                              !.presses = @ + 1]
  /\ UNCHANGED <<chatVars, favVars, mapData>>

\* handleBookActivity from the resumption of setDoc: the write was applied (ok)
\* or rejected; setTimeout(..., 2000) is started after an applied write
BookSetDocReturn(ok) ==
  /\ detail.mounted /\ detail.bookPc = "setDoc"
  /\ IF ok
       THEN /\ bookingsDb' = Append(bookingsDb,
                               BookingDoc(NewBookingId, DetailId, DetailUser, "confirmed"))
            /\ detail' = [detail EXCEPT !.bookPc = "idle", !.bookingLoading = FALSE,
                            !.showSuccessNotification = TRUE, !.timers = @ + 1,
                            !.inserted = @ + 1]
       ELSE /\ detail' = [detail EXCEPT !.bookPc = "idle", !.bookingLoading = FALSE]
            /\ UNCHANGED bookingsDb
  /\ UNCHANGED <<activitiesDb, othersConfirmed, screenVars, turnVars, histVars, rendered,
                 favVars, mapData>>

\* the callback of setTimeout runs, 2000 ms after the write
BookedTimer ==
  /\ detail.mounted /\ detail.timers > 0
  /\ detail' = [detail EXCEPT !.timers = @ - 1, !.showSuccessNotification = FALSE,
                              !.isAlreadyBooked = TRUE]
  /\ UNCHANGED <<chatVars, favVars, mapData>>

----------------------------------------------------------------------------
(* Specifications *)

Mounted == {s \in Screens : loadPc[s] # "unmounted"}
MountedTurns == {t \in FirstSlots : ScreenOf(t) \in Mounted}

\* React renders the screen with the new state values before any other handler
\* or continuation runs
Commit ==
  /\ rendered' = [s \in Screens |->
                    Render(loading'[s], messages'[s], activities'[s], userProfile'[s])]
  /\ UNCHANGED <<favVars, detail, mapData>>

\* a step of loadInitialData; docs: the users/{uid} documents it may find,
\* lists: the contents of collection 'locations' it may find
LoadStepOver(docs, lists) ==
  \E s \in Mounted, ok \in BOOLEAN :
    \/ \E locationsData \in lists : LoadLocations(s, ok, locationsData)
    \/ \E participants \in [ActivityIds -> ParticipantCounts] :
         LoadActivities(s, ok, participants)
    \/ LoadBookings(s, ok)
    \/ \E userDoc \in docs : LoadProfile(s, ok, userDoc)
    \/ \E geo \in [1..Len(locations[s]) -> GeoResults] : EnhanceLocations(s, geo)

\* the chat turns read no location: their specifications load an empty collection
LoadStep(docs) == LoadStepOver(docs, {<< >>})

ExecutorStep ==
  \E t \in MountedTurns, ok \in BOOLEAN :
    \/ ExistingReturn(t, ok)
    \/ CountReturn(t, ok)
    \/ SetDocReturn(t, ok)

Next ==
  \/ LoadStep(ProfileDocs) /\ Commit
  \/ \E t \in MountedTurns, text \in UserTexts : HandleSendMessage(t, text) /\ Commit
  \/ \E t \in MountedTurns : NoKeyReturn(t) /\ Commit
  \/ \E t \in MountedTurns, o \in GenOutcomes : FetchReturn(t, o) /\ Commit
  \/ ExecutorStep /\ Commit
  \/ \E a \in ActivityIds, isActive, isExpired \in BOOLEAN :
       SetActivityFlags(a, isActive, isExpired) /\ Commit

\* one chat screen, every input, and the store's administrator
Spec == Init /\ [][Next]_vars

\* generation outcomes that make the turn call createBooking
BookingOutcomes == {o \in GenOutcomes : HasSentinel(GeminiResponse(o))}

\* no other invocation of createBooking is in flight
Alone(t) == \A u \in Turns \ {t} : pc[u] \notin ExecPcs

NextDevices ==
  \/ LoadStep({"key"}) /\ Commit
  \/ \E t \in MountedTurns, text \in UserTexts : HandleSendMessage(t, text) /\ Commit
  \/ \E t \in MountedTurns : NoKeyReturn(t) /\ Commit
  \/ \E t \in MountedTurns, o \in BookingOutcomes : FetchReturn(t, o) /\ Commit
  \/ ExecutorStep /\ Commit

\* the booking turns of two devices, all interleavings
SpecDevices == InitDevices /\ [][NextDevices]_vars

NextSeq ==
  \/ LoadStep({"key"}) /\ Commit
  \/ \E t \in MountedTurns, text \in UserTexts : HandleSendMessage(t, text) /\ Commit
  \/ \E t \in MountedTurns : NoKeyReturn(t) /\ Commit
  \/ \E t \in MountedTurns, o \in BookingOutcomes :
       Alone(t) /\ FetchReturn(t, o) /\ Commit
  \/ ExecutorStep /\ Commit

\* the booking turns of two devices, one invocation of createBooking at a time
SpecSeq == InitDevices /\ [][NextSeq]_vars

\* the turn slots of screen s1
ScreenTurns == {t \in Turns : ScreenOf(t) = "s1"}

\* generation outcomes that do not make the turn call createBooking
ChatOutcomes == GenOutcomes \ BookingOutcomes

\* one mounted screen and a store without bookings (chat turns read none)
InitScreen ==
  /\ Init
  /\ bookingsDb = << >>
  /\ othersConfirmed = [a \in ActivityIds |-> 0]

\* every screen has rendered its current state
UpToDate ==
  \A s \in Screens :
    rendered[s] = Render(loading[s], messages[s], activities[s], userProfile[s])

\* a press or submit event may reach handleSendMessage before the render that
\* follows the previous step; continuations of awaits run after it
NextScreen ==
  \/ UpToDate /\ LoadStep(ProfileDocs) /\ UNCHANGED <<rendered, favVars, detail, mapData>>
  \/ \E t \in ScreenTurns, text \in UserTexts :
       /\ t \in FirstSlots \/ \E u \in FirstSlots : ScreenOf(u) = ScreenOf(t) /\ pc[u] # "idle"
       /\ HandleSendMessage(t, text)
       /\ UNCHANGED <<rendered, favVars, detail, mapData>>
  \/ \E t \in ScreenTurns : UpToDate /\ NoKeyReturn(t) /\ UNCHANGED <<rendered, favVars, detail, mapData>>
  \/ \E t \in ScreenTurns, o \in ChatOutcomes :
       UpToDate /\ FetchReturn(t, o) /\ UNCHANGED <<rendered, favVars, detail, mapData>>
  \/ \E u \in Users : UpToDate /\ UserEffect("s1", u) /\ UNCHANGED <<rendered, favVars, detail, mapData>>
  \/ \E s \in Mounted : RenderScreen(s)

\* the chat turns of one screen, with React's renders and the changes of the
\* signed-in user as steps of their own
SpecScreen == InitScreen /\ [][NextScreen]_vars

\* assistant messages of earlier turns of a user with a key
AssistantTexts ==
  { RawReply(<<"a", " ", "b", "\n">>), RawReply(<<"confirm">>),
    RawReply(<<"Would you like to book", " ", "a">>), TroubleText }

\* the transcript after addWelcomeMessage and Len(f) finished turns, one after
\* the other, whose assistant messages were f[1], f[2], ...
TranscriptOf(f) ==
  WelcomeMessages \o
    [i \in 1..2 * Len(f) |->
       IF i % 2 = 1 THEN Message(TRUE, UserText(<<"a">>)) ELSE Message(FALSE, f[i \div 2])]

Transcripts ==
  UNION { {TranscriptOf(f) : f \in [1..k -> AssistantTexts]} : k \in 0..MaxPairs }

\* screen s1 after loadInitialData has finished for a user with a key and some
\* turns have ended
InitContext ==
  /\ activitiesDb = [a \in ActivityIds |-> [isActive |-> TRUE, isExpired |-> FALSE]]
  /\ bookingsDb = << >>
  /\ othersConfirmed = [a \in ActivityIds |-> 0]
  /\ user = [s \in Screens |-> IF s = "s1" THEN "u1" ELSE "u2"]
  /\ \E tr \in Transcripts : messages = [s \in Screens |-> IF s = "s1" THEN tr ELSE << >>]
  /\ loading = [s \in Screens |-> FALSE]
  /\ locations = [s \in Screens |-> << >>]
  /\ activities = [s \in Screens |->
                     IF s = "s1" THEN AvailableActivities([a \in ActivityIds |-> 0]) ELSE {}]
  /\ userBookings = [s \in Screens |-> << >>]
  /\ userProfile = [s \in Screens |-> IF s = "s1" THEN "key" ELSE "null"]
  /\ loadPc = [s \in Screens |-> IF s = "s1" THEN "done" ELSE "unmounted"]
  /\ InitTurns
  /\ rendered = [s \in Screens |-> Render(loading[s], messages[s], activities[s], userProfile[s])]
  /\ InitProvider(NothingStored)
  /\ detail = NoDetailScreen
  /\ mapData = NoMap

NextContext ==
  \/ \E text \in UserTexts : HandleSendMessage("t1", text) /\ Commit
  \/ \E o \in ChatOutcomes : FetchReturn("t1", o) /\ Commit

\* one more turn on a transcript of up to MaxPairs finished turns
SpecContext == InitContext /\ [][NextContext]_vars

\* the detail screen just mounted, the chat screen idle, over any store
InitDetail ==
  /\ InitStore
  /\ user = [s \in Screens |-> IF s = "s1" THEN "u1" ELSE "u2"]
  /\ InitScreens({"s1"})
  /\ InitProvider(NothingStored)
  /\ detail = DetailScreen
  /\ mapData = NoMap

NextDetail ==
  \/ \E ok \in BOOLEAN : FetchActivityReturn(ok)
  \/ \E ok \in BOOLEAN : CheckExistingBookingReturn(ok)
  \/ HandleBookActivity
  \/ \E ok \in BOOLEAN : BookSetDocReturn(ok)
  \/ BookedTimer

\* one session of the activity detail screen
SpecDetail == InitDetail /\ [][NextDetail]_vars

\* location documents: with or without name and address; the third address is
\* the string the geocoder's city and country make
LocationDocs == [name : {<< >>, <<"n">>}, address : {<< >>, <<"ad">>, <<"c", ", ", "k">>}]

PlaceLists == UNION {[1..k -> LocationDocs] : k \in 0..MaxLocations}

InitPlaces ==
  /\ InitScreen
  /\ activitiesDb = [a \in ActivityIds |-> [isActive |-> TRUE, isExpired |-> FALSE]]

NextPlaces == LoadStepOver({"key"}, PlaceLists) /\ Commit

\* loadInitialData over every collection of up to MaxLocations locations and
\* every outcome of their geocoding calls
SpecPlaces == InitPlaces /\ [][NextPlaces]_vars

\* the chat screen just mounted, over one store
InitFavorites ==
  /\ InitStore
  /\ activitiesDb = [a \in ActivityIds |-> [isActive |-> TRUE, isExpired |-> FALSE]]
  /\ bookingsDb = << >>
  /\ othersConfirmed = [a \in ActivityIds |-> 0]
  /\ user = [s \in Screens |-> IF s = "s1" THEN "u1" ELSE "u2"]
  /\ InitScreens({"s1"})
  /\ \E stored \in [StorageKeys -> StoredItems] : InitProvider(stored)
  /\ detail = NoDetailScreen
  /\ mapData = NoMap

NextFavorites ==
  \/ \E ok \in BOOLEAN : GetItems(ok)
  \/ \E ok \in BOOLEAN : LoadFavoritesReturn(ok)
  \/ \E g \in ToggleSlots, location \in FavItems : ToggleFavorite(g, location)
  \/ \E g \in ToggleSlots, activity \in FavItems : ToggleActivityFavorite(g, activity)
  \/ \E g \in ToggleSlots, ok \in BOOLEAN : SaveFavoritesReturn(g, ok)
  \/ \E g \in ToggleSlots, ok \in BOOLEAN : SaveActivityFavoritesReturn(g, ok)

\* the favourites provider alone, with the items of a previous run
SpecFavorites == InitFavorites /\ [][NextFavorites]_vars

\* loadFavorites has finished and no toggle call is in flight
FavoritesQuiet ==
  /\ loadFavoritesPc \in {"loaded", "caught"}
  /\ \A g \in ToggleSlots : toggle[g].pc = "idle"

NextFavoritesSeq ==
  \/ \E ok \in BOOLEAN : GetItems(ok)
  \/ \E ok \in BOOLEAN : LoadFavoritesReturn(ok)
  \/ \E g \in ToggleSlots, location \in FavItems :
       FavoritesQuiet /\ ToggleFavorite(g, location)
  \/ \E g \in ToggleSlots, activity \in FavItems :
       FavoritesQuiet /\ ToggleActivityFavorite(g, activity)
  \/ \E g \in ToggleSlots, ok \in BOOLEAN : SaveFavoritesReturn(g, ok)
  \/ \E g \in ToggleSlots, ok \in BOOLEAN : SaveActivityFavoritesReturn(g, ok)

\* the favourites provider with awaited toggle calls, one after the other
SpecFavoritesSeq == InitFavorites /\ [][NextFavoritesSeq]_vars

----------------------------------------------------------------------------
(* Properties *)

\* the call turn t awaits returns
TurnStep(t) ==
  \/ NoKeyReturn(t)
  \/ \E o \in GenOutcomes : FetchReturn(t, o)
  \/ \E ok \in BOOLEAN : ExistingReturn(t, ok) \/ CountReturn(t, ok) \/ SetDocReturn(t, ok)

Failed == Outcome(FALSE, FailedText)

\* every call a turn awaits eventually returns or is rejected
ReturnsFair == \A t \in FirstSlots : WF_vars(TurnStep(t) /\ Commit)

\* Spec with every awaited call of a turn eventually answered
SpecLive == Spec /\ ReturnsFair

\* the non-cancelled bookings the store holds for (uid, aid)
NonCancelled(uid, aid) ==
  {i \in 1..Len(bookingsDb) : /\ bookingsDb[i].userId = uid
                              /\ bookingsDb[i].activityId = aid
                              /\ bookingsDb[i].status # "cancelled"}

\* C1. Turn completion: an accepted handleSendMessage appends the user message
\* and sets loading; while a call is awaited loading stays set and the call can
\* return; once the awaited calls have returned, whatever they returned, the
\* transcript holds exactly one assistant message after the turn's user message
\* and loading is false.
TurnCompletion ==
  \A t \in MountedTurns :
    LET s == ScreenOf(t) IN
    turns[t] > 0 =>
      /\ Len(messages[s]) >= sentAt[t] + 1
      /\ messages[s][sentAt[t] + 1].isUser
      /\ IF pc[t] = "idle"
           THEN /\ ~loading[s]
                /\ Len(messages[s]) = sentAt[t] + 2
                /\ ~messages[s][sentAt[t] + 2].isUser
           ELSE /\ loading[s]
                /\ Len(messages[s]) = sentAt[t] + 1
                /\ ENABLED TurnStep(t)

\* a turn whose reply made response.includes throw has ended with the error
\* message of the catch block
TurnEndedInCatch ==
  \E t \in MountedTurns :
    /\ turns[t] > 0 /\ pc[t] = "idle"
    /\ response[t].kind = "notString"
    /\ messages[ScreenOf(t)][Len(messages[ScreenOf(t)])] = Message(FALSE, ErrorText)

\* C2. Duplicate guard: when the store holds a booking for (userId, activityId)
\* as createBooking is called, the invocation ends at its first step, with the
\* 'already booked' outcome unless the duplicate query itself was rejected, and
\* neither the bookings store nor the in-memory list changes.
DuplicateGuard ==
  [][\A t \in Turns :
       (heldAtCall[t] /\ pc[t] \in ExecPcs /\ pc'[t] # pc[t]) =>
         /\ pc'[t] = "idle"
         /\ result'[t] # Failed => result'[t] = Outcome(FALSE, AlreadyText)
         /\ bookingsDb' = bookingsDb
         /\ userBookings' = userBookings]_vars

\* 'already booked' was returned for an activity that is unavailable and full
AlreadyBookedWhileUnavailableAndFull ==
  \E t \in Turns :
    /\ heldAtCall[t] /\ pc[t] = "idle"
    /\ result[t] = Outcome(FALSE, AlreadyText)
    /\ activityId[t] \in ActivityIds
    /\ ~Available(activitiesDb[activityId[t]])
    /\ ConfirmedCount(activityId[t]) >= maxParticipants

\* C3. Unavailability guard: while the activity createBooking was called for is
\* inactive or expired in the store, no step of the invocation inserts a booking
\* or appends to the in-memory list.
UnavailabilityGuard ==
  [][\A t \in Turns :
       (/\ pc[t] \in ExecPcs
        /\ activityId[t] \in ActivityIds
        /\ ~Available(activitiesDb[activityId[t]])) =>
         /\ bookingsDb' = bookingsDb
         /\ userBookings' = userBookings]_vars

\* C4. Capacity guard, one invocation at a time: (a) an in-memory counter at or
\* above the ceiling and (b) a fetched confirmed count at or above the ceiling
\* each end the invocation with 'full' carrying that number and no write; (c) at
\* a fetched count of ceiling - 1 the invocation goes on to the write, and the
\* acknowledged write leaves exactly ceiling confirmed bookings.
CapacityGuard ==
  [][\A t \in Turns :
       LET s == ScreenOf(t)
           aid == activityId[t]
           found == FindActivity(closure[t].activities, aid)
       IN
       /\ (/\ pc[t] = "existing" /\ pc'[t] # "existing" /\ result'[t] # Failed
           /\ ~Holds(user[s], aid)
           /\ \E a \in found : a.currentParticipants >= maxParticipants) =>
            /\ pc'[t] = "idle"
            /\ \E a \in found : result'[t] = Outcome(FALSE, FullText(a.currentParticipants))
            /\ bookingsDb' = bookingsDb /\ userBookings' = userBookings
       /\ (/\ pc[t] = "count" /\ pc'[t] # "count" /\ result'[t] # Failed
           /\ ConfirmedCount(aid) >= maxParticipants) =>
            /\ pc'[t] = "idle"
            /\ result'[t] = Outcome(FALSE, FullText(ConfirmedCount(aid)))
            /\ bookingsDb' = bookingsDb /\ userBookings' = userBookings
       /\ (/\ pc[t] = "count" /\ pc'[t] # "count" /\ result'[t] # Failed
           /\ ConfirmedCount(aid) = maxParticipants - 1) =>
            /\ pc'[t] = "setDoc"
            /\ currentBookingCount'[t] = maxParticipants - 1
       /\ (/\ pc[t] = "setDoc" /\ pc'[t] # "setDoc" /\ result'[t] # Failed
           /\ currentBookingCount[t] = maxParticipants - 1) =>
            /\ result'[t].success
            /\ ConfirmedCount(aid)' = maxParticipants]_vars

\* one invocation took the last place and the next one was refused as full
LastPlaceThenFull ==
  \E t, u \in Turns :
    /\ result[t].success /\ currentBookingCount[t] = maxParticipants - 1
    /\ result[u] = Outcome(FALSE, FullText(maxParticipants))
    /\ activityId[u] = activityId[t]
    /\ ConfirmedCount(activityId[t]) = maxParticipants

\* C5. Sentinel extraction: when the reply is prefix + sentinel + id + suffix,
\* with no sentinel in prefix, id non-empty and free of whitespace, and suffix
\* empty or starting with whitespace, createBooking is called with exactly id.
SentinelExtraction ==
  \A t \in Turns :
    pc[t] \in ExecPcs =>
      LET body == response[t].body IN
      \A i \in 1..Len(body), j \in 1..Len(body) :
        (/\ body[i] = Sentinel
         /\ \A k \in 1..(i - 1) : body[k] # Sentinel
         /\ j > i
         /\ \A k \in (i + 1)..j : body[k] \notin Whitespace \cup {Sentinel}
         /\ j = Len(body) \/ body[j + 1] \in Whitespace) =>
          activityId[t] = SubSeq(body, i + 1, j)

\* C6. Plain-reply turn: sending appends the user message and writes nothing;
\* when callGeminiAPI returns a string without the sentinel, the step appends
\* one assistant message whose text is that string, right after the turn's user
\* message, and leaves the bookings store and the in-memory list unchanged.
PlainReplyTurn ==
  [][\A t \in Turns :
       LET s == ScreenOf(t) IN
       /\ (pc[t] = "idle" /\ pc'[t] # "idle") =>
            /\ Len(messages'[s]) = Len(messages[s]) + 1
            /\ messages'[s][Len(messages'[s])].isUser
            /\ bookingsDb' = bookingsDb /\ userBookings' = userBookings
       /\ (/\ pc[t] \in {"fetch", "noKey"} /\ pc'[t] # pc[t]
           /\ response'[t].kind # "notString"
           /\ ~\E i \in 1..Len(response'[t].body) : response'[t].body[i] = Sentinel) =>
            /\ pc'[t] = "idle"
            /\ messages'[s] = Append(messages[s], Message(FALSE, response'[t]))
            /\ Len(messages'[s]) = sentAt[t] + 2
            /\ messages'[s][sentAt[t] + 1].isUser
            /\ bookingsDb' = bookingsDb /\ userBookings' = userBookings]_vars

\* a turn ended by showing a generated reply that ends with a newline
PlainReplyShown ==
  \E t \in MountedTurns :
    /\ turns[t] > 0 /\ pc[t] = "idle"
    /\ response[t] = RawReply(<<"a", " ", "b", "\n">>)
    /\ messages[ScreenOf(t)][sentAt[t] + 2] = Message(FALSE, response[t])

\* C7. Commit step: the count step records the confirmed count it fetched; an
\* acknowledged write inserts exactly one document {activityId, userId,
\* 'confirmed'}, appends that one entry to the in-memory list, returns success
\* with position = recorded count + 1, and that message ends the turn.
CommitStep ==
  [][\A t \in Turns :
       LET s == ScreenOf(t) IN
       /\ (pc[t] = "count" /\ pc'[t] = "setDoc") =>
            currentBookingCount'[t] = ConfirmedCount(activityId[t])
       /\ (pc[t] = "setDoc" /\ pc'[t] # "setDoc" /\ result'[t] # Failed) =>
            /\ Len(bookingsDb') = Len(bookingsDb) + 1
            /\ SubSeq(bookingsDb', 1, Len(bookingsDb)) = bookingsDb
            /\ LET doc == bookingsDb'[Len(bookingsDb')] IN
                 /\ doc.activityId = activityId[t]
                 /\ doc.userId = user[s]
                 /\ doc.status = "confirmed"
                 /\ doc.id \notin {bookingsDb[i].id : i \in 1..Len(bookingsDb)}
                 /\ userBookings'[s] = Append(userBookings[s], doc)
            /\ result'[t] = Outcome(TRUE,
                 SuccessText(activityId[t], currentBookingCount[t] + 1))
            /\ pc'[t] = "idle"
            /\ messages'[s] = Append(messages[s], Message(FALSE, result'[t].message))]_vars

\* a booking was committed as participant number ceiling
CommittedAtPosition ==
  \E t \in MountedTurns :
    /\ pc[t] = "idle" /\ result[t].success
    /\ result[t].message = SuccessText(activityId[t], maxParticipants)
    /\ messages[ScreenOf(t)][Len(messages[ScreenOf(t)])].text = result[t].message
    /\ \E i \in 1..Len(userBookings[ScreenOf(t)]) :
         userBookings[ScreenOf(t)][i].activityId = activityId[t]

\* C8. Uniqueness under sequential use: with one createBooking invocation at a
\* time, from a store with at most one booking per pair, the store never holds
\* two non-cancelled bookings for one (userId, activityId).
Uniqueness ==
  \A uid \in Users, aid \in BookedIds : Cardinality(NonCancelled(uid, aid)) <= 1

\* a user booked an activity and their next invocation for it was refused
BookedThenRefused ==
  \E t, u \in Turns :
    /\ t # u
    /\ user[ScreenOf(t)] = user[ScreenOf(u)] /\ activityId[t] = activityId[u]
    /\ result[t].success
    /\ result[u] = Outcome(FALSE, AlreadyText)

\* C9. Check-then-act race: an invocation that has passed its checks can always
\* have its insert applied, whatever other invocations have written meanwhile.
InsertUnconditional ==
  \A t \in MountedTurns : pc[t] = "setDoc" => ENABLED SetDocReturn(t, TRUE)

\* two overlapping invocations for one pair both inserted: the pair has two
\* confirmed bookings and the confirmed count is above the ceiling
DoubleBooking ==
  \E t, u \in Turns :
    /\ t # u
    /\ user[ScreenOf(t)] = user[ScreenOf(u)] /\ activityId[t] = activityId[u]
    /\ result[t].success /\ result[u].success
    /\ Cardinality(NonCancelled(user[ScreenOf(t)], activityId[t])) = 2
    /\ ConfirmedCount(activityId[t]) > maxParticipants

\* the second half of C9: two overlapping invocations by different users, each
\* having fetched a confirmed count of ceiling - 1, both inserted
OvershootByTwoUsers ==
  \E t, u \in Turns :
    /\ user[ScreenOf(t)] # user[ScreenOf(u)] /\ activityId[t] = activityId[u]
    /\ result[t].success /\ result[u].success
    /\ currentBookingCount[t] = maxParticipants - 1
    /\ currentBookingCount[u] = maxParticipants - 1
    /\ ConfirmedCount(activityId[t]) > maxParticipants

\* C10. Availability at creation time: every step of createBooking that inserts
\* a booking does so for an activity that is active and not expired in the
\* store at that moment.
AvailableAtCreation ==
  [][\A t \in Turns :
       (pc[t] = "setDoc" /\ Len(bookingsDb') > Len(bookingsDb)) =>
         /\ activityId[t] \in ActivityIds
         /\ Available(activitiesDb[activityId[t]])]_vars

\* the turns of screen s in flight
InFlight(s) == {t \in Turns : ScreenOf(t) = s /\ pc[t] # "idle"}

\* C11. Turn serialization: at every moment at most one turn is in flight in a
\* chat screen, whether or not the screen has re-rendered since the turn began.
TurnSerialization ==
  \A s \in Screens : Cardinality(InFlight(s)) <= 1

IsPrefix(p, q) == Len(p) <= Len(q) /\ SubSeq(q, 1, Len(p)) = p

\* C12. Append-only transcript: in every step the new transcript of a screen has
\* the previous one as a prefix.
AppendOnlyTranscript ==
  [][\A s \in Screens : IsPrefix(messages[s], messages'[s])]_vars

\* C13. Generation soft failure: when the generation request throws, returns a
\* non-success status, a body that is not JSON or an envelope without candidate
\* text, callGeminiAPI returns one of its two fixed messages; that message is
\* appended as the turn's assistant reply, createBooking is not called and
\* neither the bookings store nor the in-memory list changes.
GenerationSoftFailure ==
  [][\A t \in Turns :
       LET s == ScreenOf(t) IN
       (/\ pc[t] = "fetch" /\ pc'[t] # "fetch"
        /\ genOutcome'[t] \in {"networkError", "non2xx", "badJson", "noCandidate"}) =>
         /\ response'[t] = IF genOutcome'[t] = "noCandidate" THEN ApologyText
                                                              ELSE TroubleText
         /\ pc'[t] = "idle"
         /\ messages'[s] = Append(messages[s], Message(FALSE, response'[t]))
         /\ ~loading'[s]
         /\ invocations'[t] = 0
         /\ bookingsDb' = bookingsDb /\ userBookings' = userBookings]_vars

\* a turn whose generation request got a non-success status ended with the
\* fixed message
NonSuccessStatusAnswered ==
  \E t \in MountedTurns :
    /\ pc[t] = "idle" /\ genOutcome[t] = "non2xx"
    /\ messages[ScreenOf(t)][sentAt[t] + 2] = Message(FALSE, TroubleText)

\* C14. Missing credential: a turn started while the screen's profile has no
\* API key issues no generation request, calls createBooking never, writes
\* nothing and ends with the fixed instructional message as its reply.
MissingCredential ==
  [][\A t \in Turns :
       LET s == ScreenOf(t) IN
       /\ (pc[t] = "idle" /\ pc'[t] # "idle" /\ userProfile[s] # "key") =>
            /\ pc'[t] = "noKey"
            /\ requests'[t] = 0
       /\ (pc[t] = "noKey" /\ pc'[t] # "noKey") =>
            /\ pc'[t] = "idle"
            /\ messages'[s] = Append(messages[s], Message(FALSE, NeedKeyText))
            /\ requests'[t] = 0 /\ invocations'[t] = 0
            /\ bookingsDb' = bookingsDb /\ userBookings' = userBookings]_vars

\* a turn of a user whose loaded profile has no key got the instructional message
NoKeyAnswered ==
  \E t \in MountedTurns :
    /\ pc[t] = "idle" /\ turns[t] > 0
    /\ loadPc[ScreenOf(t)] = "done" /\ userProfile[ScreenOf(t)] = "noKey"
    /\ requests[t] = 0
    /\ messages[ScreenOf(t)][sentAt[t] + 2] = Message(FALSE, NeedKeyText)

\* a store call of createBooking is rejected
StoreFailureStep(t) ==
  \/ ExistingReturn(t, FALSE)
  \/ CountReturn(t, FALSE)
  \/ SetDocReturn(t, FALSE)

\* C15. Store failure during booking: when the duplicate query, the count query
\* or the insert is rejected, createBooking returns the 'Failed to create
\* booking' outcome, the in-memory list is unchanged, and the turn ends with
\* that message appended and loading false.
StoreFailure ==
  [][\A t \in Turns :
       LET s == ScreenOf(t) IN
       StoreFailureStep(t) =>
         /\ result'[t] = Failed
         /\ userBookings' = userBookings
         /\ pc'[t] = "idle"
         /\ messages'[s] = Append(messages[s], Message(FALSE, FailedText))
         /\ ~loading'[s]]_vars

\* the insert was reached and the turn ended with the failure message
FailureAnswered ==
  \E t \in MountedTurns :
    /\ pc[t] = "idle" /\ result[t] = Failed
    /\ currentBookingCount[t] = maxParticipants - 1
    /\ ~loading[ScreenOf(t)]
    /\ messages[ScreenOf(t)][sentAt[t] + 2] = Message(FALSE, FailedText)

OutcomeKinds == {"already", "notFound", "unavailable", "full", "success", "failed"}

\* C16. Domain outcomes are values: a step of createBooking either goes on to
\* its next store call, writing nothing, or returns one of the six outcomes;
\* the store is written only by a step that returns success; an id that matches
\* no activity of the snapshot (and no held booking) gives 'not found'; and the
\* returned message is the text of the turn's assistant message.
DomainOutcomes ==
  [][\A t \in Turns :
       LET s == ScreenOf(t) IN
       (pc[t] \in ExecPcs /\ pc'[t] # pc[t]) =>
         /\ pc'[t] \in ExecPcs \cup {"idle"}
         /\ pc'[t] \in ExecPcs => bookingsDb' = bookingsDb /\ result'[t] = NoResult
         /\ pc'[t] = "idle" =>
              /\ result'[t].message.kind \in OutcomeKinds
              /\ result'[t].success <=> result'[t].message.kind = "success"
              /\ bookingsDb' # bookingsDb => result'[t].success
              /\ messages'[s] = Append(messages[s], Message(FALSE, result'[t].message))
         /\ (/\ ExistingReturn(t, TRUE)
             /\ ~Holds(user[s], activityId[t])
             /\ \A a \in closure[t].activities : a.id # activityId[t]) =>
              result'[t] = Outcome(FALSE, NotFoundText)]_vars

\* a sentinel turn ended with 'Activity not found.' in place of the raw reply
NotFoundShown ==
  \E t \in MountedTurns :
    /\ pc[t] = "idle" /\ response[t].kind = "reply"
    /\ result[t] = Outcome(FALSE, NotFoundText)
    /\ messages[ScreenOf(t)][sentAt[t] + 2] = Message(FALSE, NotFoundText)

\* C18. Single side effect per turn: a turn issues at most one generation
\* request and calls createBooking at most once; createBooking has been called
\* in a finished turn iff the reply of that turn is a string containing the
\* sentinel; a turn that got an answer to a request issued exactly one.
SingleSideEffect ==
  \A t \in Turns :
    /\ requests[t] <= 1 /\ invocations[t] <= 1
    /\ pc[t] \in ExecPcs => invocations[t] = 1
    /\ pc[t] \in {"noKey", "fetch"} => invocations[t] = 0
    /\ (pc[t] = "idle" /\ turns[t] > 0) =>
         /\ invocations[t] = 1 <=>
              /\ response[t].kind = "reply"
              /\ \E i \in 1..Len(response[t].body) : response[t].body[i] = Sentinel
         /\ requests[t] = IF genOutcome[t] = "noRequest" THEN 0 ELSE 1

\* a reply with two sentinels led to one call of createBooking, and a failed
\* request was not sent again
OneCallForTwoSentinels ==
  \E t \in MountedTurns :
    /\ pc[t] = "idle" /\ invocations[t] = 1 /\ requests[t] = 1
    /\ Cardinality({i \in 1..Len(response[t].body) : response[t].body[i] = Sentinel}) = 2
    /\ activityId[t] = <<"b">>

\* C19. Initial load precedes the first turn: handleSendMessage is accepted only
\* when loadInitialData of the screen has finished.
LoadPrecedesTurn ==
  [][\A t \in Turns :
       (pc[t] = "idle" /\ pc'[t] # "idle") => loadPc[ScreenOf(t)] = "done"]_vars


\* C17: when callGeminiAPI builds its prompt in a turn that follows finished
\* turns, isActiveBookingDiscussion is true exactly when the most recent
\* assistant message of the transcript contains 'Would you like to book',
\* 'book this activity', 'confirm' or 'Just to confirm'; it is false when the
\* welcome message is the only assistant message.
ActiveDiscussionFlag ==
  \A t \in Turns :
    pc[t] = "fetch" =>
      LET msgs == messages[ScreenOf(t)]
          ai == {i \in 1..Len(msgs) : ~msgs[i].isUser}
          last == CHOOSE i \in ai : \A j \in ai : j <= i
          offered == \E k \in 1..Len(msgs[last].text.body) :
                       msgs[last].text.body[k] \in
                         {"Would you like to book", "book this activity", "confirm",
                          "Just to confirm"}
      IN  /\ ai # {}
          /\ closure[t].isActiveBookingDiscussion <=> offered
          /\ (\A i \in ai : msgs[i].text = WelcomeText) =>
                ~closure[t].isActiveBookingDiscussion

\* a turn on a transcript of nine messages whose last assistant message asks
\* for a confirmation, after one that did not
FlagSetBeyondEightMessages ==
  LET msgs == messages["s1"] IN
  /\ pc["t1"] = "fetch"
  /\ Len(msgs) = 10
  /\ msgs[9].text = RawReply(<<"confirm">>)
  /\ msgs[7].text = TroubleText
  /\ closure["t1"].isActiveBookingDiscussion


\* C20: a toggle whose write to AsyncStorage is rejected resolves and leaves
\* both in-memory lists as they were; when the read of loadFavorites is
\* rejected the lists are left as they were (empty, unless a toggle was made
\* during the read) and the loading flag is cleared.
FavoritesDegrade ==
  [][ /\ \A g \in ToggleSlots :
           (SaveFavoritesReturn(g, FALSE) \/ SaveActivityFavoritesReturn(g, FALSE)) =>
             /\ favorites' = favorites
             /\ favoriteActivities' = favoriteActivities
             /\ toggle'[g].pc = "idle"
             /\ toggle'[g].outcome = "resolved"
      /\ LoadFavoritesReturn(FALSE) =>
           /\ favorites' = favorites
           /\ favoriteActivities' = favoriteActivities
           /\ toggleCalls = 0 => favorites' = << >> /\ favoriteActivities' = << >>
           /\ ~favoritesLoading'
    ]_vars

\* the stored favourites could not be read, one location was then added, and
\* the write of a second toggle was rejected
FailedWriteAfterFailedRead ==
  /\ loadFavoritesPc = "caught"
  /\ storage[ACTIVITY_FAVORITES_STORAGE_KEY] = Stringify(<<"x">>)
  /\ favoriteActivities = << >>
  /\ ~favoritesLoading
  /\ favorites = <<"x">>
  /\ \E g \in ToggleSlots :
       /\ toggle[g].failed
       /\ toggle[g].outcome = "resolved"
       /\ toggle[g].newFavorites = <<"x", "y">>

\* C21. Check order: when the duplicate query comes back, createBooking returns
\* 'already booked' if the store holds a booking for (user, id), whatever the
\* snapshot says; otherwise 'not found' if the id is not in the snapshot;
\* otherwise 'unavailable' if the snapshot's activity is inactive or expired;
\* otherwise 'full' if its counter is at the ceiling; otherwise it goes on to
\* the count query, after which it returns 'full' if the count is at the
\* ceiling and goes on to the write otherwise.
CheckOrder ==
  [][\A t \in Turns :
       LET s == ScreenOf(t)
           held == \E i \in 1..Len(bookingsDb) :
                     bookingsDb[i].userId = user[s] /\ bookingsDb[i].activityId = activityId[t]
           inSnapshot == {a \in closure[t].activities : a.id = activityId[t]}
           count == othersConfirmed[activityId[t]] +
                      Cardinality({i \in 1..Len(bookingsDb) :
                                     /\ bookingsDb[i].activityId = activityId[t]
                                     /\ bookingsDb[i].status = "confirmed"})
       IN
       /\ ExistingReturn(t, TRUE) =>
            IF held THEN result'[t].message = AlreadyText
            ELSE IF inSnapshot = {} THEN result'[t].message = NotFoundText
            ELSE IF \E a \in inSnapshot : ~a.isActive \/ a.isExpired
              THEN result'[t].message = UnavailableText
            ELSE IF \E a \in inSnapshot : a.currentParticipants >= maxParticipants
              THEN result'[t].message.kind = "full" /\ pc'[t] = "idle"
            ELSE pc'[t] = "count" /\ result'[t] = NoResult
       /\ CountReturn(t, TRUE) =>
            IF count >= maxParticipants
              THEN result'[t].message = FullText(count) /\ pc'[t] = "idle"
              ELSE pc'[t] = "setDoc" /\ result'[t] = NoResult
       /\ (pc[t] \in ExecPcs /\ result'[t].message.kind = "full") =>
            /\ ~heldAtCall[t]
            /\ \E a \in inSnapshot : a.isActive /\ ~a.isExpired]_vars

\* an id that is not in the snapshot got 'already booked', and the snapshot's
\* activity is at the ceiling
AlreadyBookedForAbsentId ==
  \E t \in MountedTurns :
    /\ pc[t] = "idle"
    /\ result[t] = Outcome(FALSE, AlreadyText)
    /\ \A a \in closure[t].activities : a.id # activityId[t]
    /\ \E a \in closure[t].activities : a.currentParticipants >= maxParticipants

\* C22. Context window: the conversation context callGeminiAPI puts in the
\* prompt of a turn is the last 8 messages of the transcript as it stands
\* after the turn's user message has been appended, in order; the user message
\* of the turn is the last of them.
ContextWindow ==
  \A t \in Turns :
    pc[t] = "fetch" =>
      LET msgs == messages[ScreenOf(t)]
          n == IF Len(msgs) < 8 THEN Len(msgs) ELSE 8
          ctx == closure[t].conversationContext
      IN  /\ ctx = [i \in 1..n |-> msgs[Len(msgs) - n + i]]
          /\ ctx # << >> /\ ctx[Len(ctx)].isUser

\* C23. No watchdog: while the generation request of a turn has not come back
\* the turn stays where it is, loading stays set, the transcript gets no
\* assistant message and the screen accepts no other send.
NoWatchdog ==
  [][\A t \in Turns :
       LET s == ScreenOf(t) IN
       (pc[t] = "fetch" /\ pc'[t] = "fetch") =>
         /\ loading'[s]
         /\ \A u \in Turns \ {t} : ScreenOf(u) = s => turns'[u] = turns[u]
         /\ \A i \in 1..Len(messages'[s]) : i > sentAt[t] => messages'[s][i].isUser]_vars

\* the converse of C23: when every awaited call is answered, a started turn ends
TurnsTerminate == \A t \in FirstSlots : (pc[t] # "idle") ~> (pc[t] = "idle")

\* C24. Geocoding degradation: whatever the geocoding calls come back with,
\* loadInitialData stores a list with one enhanced record per location, in
\* order.  For a location whose call failed or gave no (city or locality) and
\* country, both place strings are the stored address when there is one;
\* without an address placeName is the name, or 'Unknown location' without a
\* name, and fullPlaceContext is 'Unknown location'.  Every other location
\* gets the geocoder's place in its fullPlaceContext.
GeocodingDegradation ==
  [][\A s \in Screens :
       \A geo \in [1..Len(locations[s]) -> GeoResults] :
         EnhanceLocations(s, geo) =>
           /\ loadPc'[s] = "done"
           /\ Len(locations'[s]) = Len(locations[s])
           /\ \A i \in 1..Len(locations[s]) :
                DOMAIN locations'[s][i] = {"name", "address", "placeName", "fullPlaceContext"}
           /\ \A i \in 1..Len(locations[s]) :
                LET l == locations[s][i]
                    e == locations'[s][i]
                    place == \/ geo[i].ok /\ geo[i].countryName # << >> /\ geo[i].city # << >>
                             \/ geo[i].ok /\ geo[i].countryName # << >> /\ geo[i].locality # << >>
                IN  /\ e.name = l.name /\ e.address = l.address
                    /\ (~place /\ l.address # << >>) =>
                         e.placeName = l.address /\ e.fullPlaceContext = l.address
                    /\ (~place /\ l.address = << >>) =>
                         /\ e.placeName = (IF l.name # << >> THEN l.name
                                           ELSE <<"Unknown location">>)
                         /\ e.fullPlaceContext = <<"Unknown location">>
                    /\ place =>
                         /\ e.placeName # << >>
                         /\ \/ e.fullPlaceContext = l.address
                               /\ l.address = <<geo[i].city[1], ", ", geo[i].countryName[1]>>
                            \/ \E k \in 1..Len(e.fullPlaceContext) :
                                 e.fullPlaceContext[k] = geo[i].countryName[1]]_vars

\* the load ended with two locations: the first kept its address (its call
\* failed), the second got the geocoder's place after its address
OneDegradedOneEnriched ==
  \E s \in Mounted :
    /\ loadPc[s] = "done" /\ Len(locations[s]) = 2
    /\ \A i \in 1..2 : "fullPlaceContext" \in DOMAIN locations[s][i]
    /\ locations[s][1].address = <<"ad">>
    /\ locations[s][1].fullPlaceContext = <<"ad">>
    /\ locations[s][2].fullPlaceContext = <<"ad", " (", "c", ", ", "l", ", ", "k", ")">>

\* C25. Snapshot availability: every activity record in the screen's activities
\* state, and in the snapshot any handler holds, has isActive = true and
\* isExpired = false; the state is written only by the activities query of
\* loadInitialData; createBooking never returns 'This activity is no longer
\* available for booking.'.
SnapshotAvailability ==
  /\ [](/\ \A s \in Screens : \A a \in activities[s] : a.isActive /\ ~a.isExpired
        /\ \A t \in Turns :
             /\ \A a \in closure[t].activities : a.isActive /\ ~a.isExpired
             /\ result[t].message # UnavailableText)
  /\ [][\A s \in Screens :
          activities'[s] # activities[s] => loadPc[s] = "activities" /\ loadPc'[s] = "bookings"]_vars

\* createBooking has returned for an activity that is in the snapshot and, by
\* then, inactive or expired in the store
StaleSnapshotUsed ==
  \E t \in MountedTurns :
    /\ pc[t] = "idle" /\ result[t] # NoResult
    /\ \E a \in closure[t].activities : a.id = activityId[t]
    /\ ~Available(activitiesDb[activityId[t]])

\* C26. Detail-screen single booking: in one session of the activity detail
\* screen, handleBookActivity inserts at most one booking document.
DetailSingleBooking == detail.inserted <= 1

\* C27. The detail screen inserts only where createBooking would: at the time
\* of the insert the activity is active and not expired, its confirmed count is
\* below the ceiling and the store holds no booking for (user, activity).
DetailRefinesExecutor ==
  [][(detail.bookPc = "setDoc" /\ bookingsDb' # bookingsDb) =>
       /\ activitiesDb[DetailId].isActive /\ ~activitiesDb[DetailId].isExpired
       /\ ConfirmedCount(DetailId) < maxParticipants
       /\ ~Holds(DetailUser, DetailId)]_vars

\* C28. Favourites memory/storage agreement: once loadFavorites has finished and
\* no toggle is in flight, none of them having failed, the favorites list in
\* memory is the list stored under the favorites key; and a toggle that
\* completes leaves the list that was current with the toggled location
\* flipped, so that no completed toggle is lost.
FavoritesAgreement ==
  /\ []((/\ loadFavoritesPc = "loaded"
         /\ \A g \in ToggleSlots : toggle[g].pc = "idle" /\ ~toggle[g].failed) =>
          favorites = (IF storage[FAVORITES_STORAGE_KEY] = << >> THEN << >>
                       ELSE SubSeq(storage[FAVORITES_STORAGE_KEY], 2,
                                   Len(storage[FAVORITES_STORAGE_KEY]) - 1)))
  /\ [][\A g \in ToggleSlots :
          SaveFavoritesReturn(g, TRUE) =>
            LET L == toggle[g].item IN
            /\ (\E i \in 1..Len(favorites') : favorites'[i] = L) <=>
                 ~(\E i \in 1..Len(favorites) : favorites[i] = L)
            /\ SelectSeq(favorites', LAMBDA f : f # L) =
                 SelectSeq(favorites, LAMBDA f : f # L)]_vars

\* C29. Toggle semantics: an awaited toggle call whose write succeeds flips
\* isFavorite (isActivityFavorite) of its item and leaves the other entries and
\* their order as they were; a toggle of the item a previous toggle left gives
\* back the ids the list had before the two; neither list ever holds an id
\* twice.
ToggleSemantics ==
  /\ [][\A g \in ToggleSlots :
          LET L == toggle[g].item IN
          /\ SaveFavoritesReturn(g, TRUE) =>
               /\ isFavorite(L)' = ~isFavorite(L)
               /\ SelectSeq(favorites', LAMBDA f : f # L) =
                    SelectSeq(favorites, LAMBDA f : f # L)
               /\ favoriteActivities' = favoriteActivities
          /\ SaveActivityFavoritesReturn(g, TRUE) =>
               /\ isActivityFavorite(L)' = ~isActivityFavorite(L)
               /\ SelectSeq(favoriteActivities', LAMBDA f : f # L) =
                    SelectSeq(favoriteActivities, LAMBDA f : f # L)
               /\ favorites' = favorites]_vars
  /\ [](/\ \A i, j \in 1..Len(favorites) : favorites[i] = favorites[j] => i = j
        /\ \A i, j \in 1..Len(favoriteActivities) :
             favoriteActivities[i] = favoriteActivities[j] => i = j
        /\ \A g, h \in ToggleSlots :
             (/\ toggle[g].outcome = "resolved" /\ toggle[h].outcome = "resolved"
              /\ toggle[g].key = toggle[h].key /\ toggle[g].item = toggle[h].item
              /\ toggle[h].favorites = toggle[g].newFavorites) =>
               {toggle[h].newFavorites[i] : i \in 1..Len(toggle[h].newFavorites)} =
                 {toggle[g].favorites[i] : i \in 1..Len(toggle[g].favorites)})

\* location y was added after x and then removed again: the list is back to x
ToggledTwice ==
  /\ favorites = <<"x">>
  /\ toggle["g1"].outcome = "resolved" /\ ~toggle["g1"].failed
  /\ toggle["g2"].outcome = "resolved" /\ ~toggle["g2"].failed
  /\ toggle["g1"].favorites = <<"x">> /\ toggle["g1"].newFavorites = <<"x", "y">>
  /\ toggle["g2"].favorites = <<"x", "y">> /\ toggle["g2"].newFavorites = <<"x">>
----------------------------------------------------------------------------
(* Map: processActivityRoutes (src/components/Map.native.tsx) *)

\* ids of the documents of collection 'locations' and of 'activities'
MapLocationIds == {"l1", "l2", "l3"}
MapActivityIds == {"m1", "m2"}

\* the coordinates stored with a location (a latitude of 0 is still an object)
CoordinatesOf(id) ==
  CASE id = "l1" -> [lat |-> 0, lng |-> 0]
    [] id = "l2" -> [lat |-> 33, lng |-> 35]
    [] OTHER -> [lat |-> 34, lng |-> 36]

\* sequences without repetition of up to n elements of S
DistinctSeqs(S, n) ==
  {q \in UNION {[1..k -> S] : k \in 0..n} : \A i, j \in DOMAIN q : q[i] = q[j] => i = j}

\* Location[]: documents with distinct ids, each with or without coordinates
MapLocationLists ==
  UNION {{[i \in DOMAIN ids |->
             IF i \in withCoordinates
               THEN [id |-> ids[i], coordinates |-> CoordinatesOf(ids[i])]
               ELSE [id |-> ids[i]]] : withCoordinates \in SUBSET DOMAIN ids}
         : ids \in DistinctSeqs(MapLocationIds, MaxStops)}

\* Activity: with field locations (a list of location ids, repetition allowed)
\* or without it
MapActivities ==
  {[id |-> a, title |-> <<"title", a>>] : a \in MapActivityIds}
  \cup {[id |-> a, title |-> <<"title", a>>, locations |-> ls] :
          a \in MapActivityIds,
          ls \in UNION {[1..k -> MapLocationIds] : k \in 0..MaxStops}}

\* Activity[]: documents with distinct ids
MapActivityLists ==
  {q \in UNION {[1..k -> MapActivities] : k \in 0..MaxMapActivities} :
     \A i, j \in DOMAIN q : q[i].id = q[j].id => i = j}

\* allLocations.find(loc => loc.id === locationId): << >> for undefined, else
\* the first match
FindLocation(allLocations, locationId) ==
  LET matches == SelectSeq(allLocations, LAMBDA loc : loc.id = locationId)
  IN IF matches = << >> THEN << >> ELSE <<matches[1]>>

\* a mutant: the coordinates in the order of allLocations
RouteCoordinatesInLocationOrder(locationIds, allLocations) ==
  LET listed == SelectSeq(allLocations,
                  LAMBDA loc : /\ \E i \in DOMAIN locationIds : locationIds[i] = loc.id
                               /\ "coordinates" \in DOMAIN loc)
      times(loc) == Cardinality({i \in DOMAIN locationIds : locationIds[i] = loc.id})
      RECURSIVE Copies(_, _)
      Copies(x, n) == IF n = 0 THEN << >> ELSE <<x>> \o Copies(x, n - 1)
      RECURSIVE Flat(_)
      Flat(q) == IF q = << >> THEN << >>
                 ELSE Copies([latitude |-> Head(q).coordinates.lat,
                              longitude |-> Head(q).coordinates.lng], times(Head(q)))
                      \o Flat(Tail(q))
  IN Flat(listed)

\* the inner loop: routeCoordinates after the ids of activity.locations
RECURSIVE RouteCoordinates(_, _)
RouteCoordinates(locationIds, allLocations) ==
  IF locationIds = << >> THEN << >>
  ELSE LET location == FindLocation(allLocations, Head(locationIds))
       IN (IF location # << >> /\ "coordinates" \in DOMAIN location[1]
             THEN <<[latitude |-> location[1].coordinates.lat,
                     longitude |-> location[1].coordinates.lng]>>
             ELSE << >>)
          \o RouteCoordinates(Tail(locationIds), allLocations)

\* the outer loop: routes after the activities
RECURSIVE processActivityRoutes(_, _)
processActivityRoutes(acts, allLocations) ==
  IF acts = << >> THEN << >>
  ELSE LET activity == Head(acts)
           routeCoordinates ==
             IF "locations" \in DOMAIN activity /\ Len(activity.locations) > 1
               THEN RouteCoordinates(activity.locations, allLocations)
               ELSE << >>
       IN (IF Len(routeCoordinates) > 1
             THEN <<[id |-> activity.id, title |-> activity.title,
                     coordinates |-> routeCoordinates, color |-> "#FF6B35"]>>
             ELSE << >>)
          \o processActivityRoutes(Tail(acts), allLocations)

\* processActivityRoutes returns
ProcessActivityRoutesReturn ==
  /\ mapData.pc = "called"
  /\ mapData' = [mapData EXCEPT !.pc = "returned",
                   !.routes = processActivityRoutes(mapData.activities, mapData.allLocations)]
  /\ UNCHANGED <<chatVars, favVars, detail>>

\* a call of processActivityRoutes with any arguments
InitMap ==
  /\ InitStore
  /\ activitiesDb = [a \in ActivityIds |-> [isActive |-> TRUE, isExpired |-> FALSE]]
  /\ bookingsDb = << >>
  /\ othersConfirmed = [a \in ActivityIds |-> 0]
  /\ user = [s \in Screens |-> IF s = "s1" THEN "u1" ELSE "u2"]
  /\ InitScreens({"s1"})
  /\ InitProvider(NothingStored)
  /\ detail = NoDetailScreen
  /\ mapData \in {[pc |-> "called", activities |-> acts, allLocations |-> locs,
                    routes |-> << >>] :
                   acts \in MapActivityLists, locs \in MapLocationLists}

NextMap == ProcessActivityRoutesReturn

\* processActivityRoutes over every list of up to MaxMapActivities activities
\* and every list of up to MaxStops locations
SpecMap == InitMap /\ [][NextMap]_vars

\* C30. Route aggregation: processActivityRoutes returns one route for each
\* activity that lists more than one location id of which at least two resolve
\* to a location with coordinates, and none for any other activity; the routes
\* are in the order of the activities, and a route's coordinates are those of
\* the resolved locations in the order of activity.locations, the unresolved
\* ids skipped.
RouteAggregation ==
  mapData.pc = "returned" =>
    LET locs == mapData.allLocations
        routes == mapData.routes
        Resolved(id) ==
          \E i \in DOMAIN locs : locs[i].id = id /\ "coordinates" \in DOMAIN locs[i]
        PointOf(id) ==
          LET i == CHOOSE i \in DOMAIN locs : locs[i].id = id
          IN [latitude |-> locs[i].coordinates.lat, longitude |-> locs[i].coordinates.lng]
        Listed(a) == IF "locations" \in DOMAIN a THEN a.locations ELSE << >>
        ResolvedIds(a) == SelectSeq(Listed(a), Resolved)
        Qualifies(a) ==
          /\ Len(Listed(a)) > 1
          /\ Cardinality({i \in DOMAIN Listed(a) : Resolved(Listed(a)[i])}) >= 2
        expected == SelectSeq(mapData.activities, Qualifies)
    IN /\ Len(routes) = Len(expected)
       /\ \A k \in DOMAIN routes :
            /\ routes[k].id = expected[k].id
            /\ routes[k].title = expected[k].title
            /\ routes[k].coordinates =
                 [i \in DOMAIN ResolvedIds(expected[k]) |-> PointOf(ResolvedIds(expected[k])[i])]

\* of two activities only the second has a route; it lists l3, l2, l1, of which
\* l2 has no coordinates, while allLocations starts with l1
SecondActivityRouted ==
  /\ mapData.pc = "returned"
  /\ Len(mapData.activities) = 2
  /\ "locations" \in DOMAIN mapData.activities[1]
  /\ Len(mapData.activities[1].locations) > 1
  /\ "locations" \in DOMAIN mapData.activities[2]
  /\ mapData.activities[2].locations = <<"l3", "l2", "l1">>
  /\ Len(mapData.allLocations) = 3
  /\ mapData.allLocations[1].id = "l1"
  /\ Len(mapData.routes) = 1
  /\ mapData.routes[1].id = mapData.activities[2].id
  /\ mapData.routes[1].coordinates =
       <<[latitude |-> 34, longitude |-> 36], [latitude |-> 0, longitude |-> 0]>>

====
